---- MODULE Spec2Model ----
(***************************************************************************)
(* GitHub Activity Tracker: the TTL cache (app/utils/cache.py), the        *)
(* settings that configure it (app/core/config.py, app/core/dependencies), *)
(* the upstream client (app/repositories/github_repository.py), the        *)
(* activity analysis (app/services/github_service.py) and the request      *)
(* handler (app/api/routes/activity.py).                                   *)
(*                                                                         *)
(* Time is the value time.time() returns, counted in whole ticks.  A       *)
(* handler that reads the clock twice may see it advance between the two   *)
(* reads.  The dictionary TTLCache._cache is a sequence of entries in      *)
(* insertion order, which is the order Python iterates it in.              *)
(***************************************************************************)
EXTENDS Integers, Sequences, FiniteSets, TLC

VARIABLES
    now,             \* the clock: what time.time() returns now
    env,             \* configured values Settings() is built from
    settings,        \* config._settings: None or Some(record)
    settings_error,  \* TRUE once Settings() has raised a validation error
    cache_instance,  \* the TTLCache object: None or Some([ttl_seconds, max_size, origin])
    cache,           \* TTLCache._cache of that object, in insertion order
    last,            \* the latest cache call: its arguments, clock reads and result
    last_set,        \* per key, the latest set() still standing (history)
    req,             \* per request slot, the get_user_events call in progress
    last_req,        \* the latest step of a get_user_events call and what it gave
    fills,           \* per username, the latest cache populate by get_user_events and the
                     \* response its request got (history)
    feed,            \* the events the upstream holds, as (type, repository name) pairs
    http,            \* the response of the request handler to the latest step: None or Some
    workers,         \* per worker thread, the get_cache() call it is running
    instances,       \* how many TTLCache objects get_cache() has built so far
    app_state,       \* the application: its lifespan and app.state.http_client
    overtaken        \* which calls in flight a later call has populated ahead of (history)

vars == <<now, env, settings, settings_error, cache_instance, cache, last, last_set,
          req, last_req, fills, feed, http, workers, instances, app_state, overtaken>>

(***************************************************************************)
(* Bounds of the model.                                                    *)
(***************************************************************************)
MaxTime == 3
MaxCfg == 2
NumReq == 2

Times == 0..MaxTime
CfgInts == (-1)..MaxCfg
Reqs == 1..NumReq

Usernames == {"alice", "Alice", "Zoe Q"}

\* a username with a line feed in it, as a request for /users/al%0Aice/activity
\* hands it to the handler
Unsendable == "al\nice"

\* the usernames whose case is compared with the owners of repositories
Owners == {"émile", "STRAßE"}

\* every username a request is made for
Requested == Usernames \cup {Unsendable} \cup Owners

Values == {"value1", "value2"}

(***************************************************************************)
(* Optional values.                                                        *)
(***************************************************************************)
None == <<>>
Some(v) == <<v>>

(***************************************************************************)
(* Settings (app/core/config.py).                                          *)
(***************************************************************************)
validate_positive_int_lt(v) == ~(v < 0)

\* TRUE when the validator returns v, FALSE when it raises ValueError
validate_positive_int(v) == ~(v <= 0)

\* Settings(): Some(settings) or None when a field validator raised
Settings(e) ==
    IF validate_positive_int(e.cache_ttl_seconds) /\ validate_positive_int(e.cache_max_size)
    THEN Some([cache_ttl_seconds |-> e.cache_ttl_seconds, cache_max_size |-> e.cache_max_size])
    ELSE None

(***************************************************************************)
(* TTLCache (app/utils/cache.py).                                          *)
(***************************************************************************)
TTLCache_init(ttl_seconds, max_size, origin) ==
    [ttl_seconds |-> ttl_seconds, max_size |-> max_size, origin |-> origin]

KeysOf(c) == {c[i].key : i \in 1..Len(c)}
IndexOf(c, key) == CHOOSE i \in 1..Len(c) : c[i].key = key
Lookup(c, key) == c[IndexOf(c, key)]
Delete(c, key) ==
    LET i == IndexOf(c, key) IN SubSeq(c, 1, i - 1) \o SubSeq(c, i + 1, Len(c))

Store_first_wins(c, key, value, expiry_time) ==
    IF key \in KeysOf(c) THEN c
    ELSE Append(c, [key |-> key, value |-> value, expiry_time |-> expiry_time])

Store_keep_expiry(c, key, value, expiry_time) ==
    IF key \in KeysOf(c)
    THEN [c EXCEPT ![IndexOf(c, key)] =
            [key |-> key, value |-> value, expiry_time |-> Lookup(c, key).expiry_time]]
    ELSE Append(c, [key |-> key, value |-> value, expiry_time |-> expiry_time])

\* self._cache[key] = (value, expiry_time): an existing key keeps its place
Store(c, key, value, expiry_time) ==
    LET e == [key |-> key, value |-> value, expiry_time |-> expiry_time]
    IN  IF key \in KeysOf(c) THEN [c EXCEPT ![IndexOf(c, key)] = e] ELSE Append(c, e)

_evict_expired_gt(c, current_time) ==
    LET Keep(e) == ~(current_time > e.expiry_time) IN SelectSeq(c, Keep)

\* the entries with current_time >= expiry_time are deleted, whatever their key
_evict_expired(c, current_time) ==
    LET Keep(e) == ~(current_time >= e.expiry_time) IN SelectSeq(c, Keep)

_evict_oldest_newest(c) ==
    IF c = <<>> THEN c
    ELSE LET i == CHOOSE j \in 1..Len(c) :
                    /\ \A m \in 1..Len(c) : c[j].expiry_time >= c[m].expiry_time
                    /\ \A m \in 1..(j - 1) : c[m].expiry_time < c[j].expiry_time
         IN  Delete(c, c[i].key)

\* min() returns the first key, in iteration order, with the least expiry time
_evict_oldest(c) ==
    IF c = <<>> THEN c
    ELSE LET i == CHOOSE j \in 1..Len(c) :
                    /\ \A m \in 1..Len(c) : c[j].expiry_time <= c[m].expiry_time
                    /\ \A m \in 1..(j - 1) : c[m].expiry_time > c[j].expiry_time
         IN  Delete(c, c[i].key)

expired_le(t, expiry_time) == ~(t <= expiry_time)

\* the test of get(): the entry is served when time.time() < expiry_time
expired(t, expiry_time) == ~(t < expiry_time)

TTLCache_get_touch(c, key, t1, t2) ==
    LET c1 == _evict_expired(c, t1) IN
    IF key \in KeysOf(c1)
    THEN IF ~expired(t2, Lookup(c1, key).expiry_time)
         THEN [cache |-> [c1 EXCEPT ![IndexOf(c1, key)].expiry_time = @ + 1],
               result |-> Some(Lookup(c1, key).value)]
         ELSE [cache |-> Delete(c1, key), result |-> None]
    ELSE [cache |-> c1, result |-> None]

\* get(key) reading the clock as t1 in the sweep and as t2 in the test
TTLCache_get(c, key, t1, t2) ==
    LET c1 == _evict_expired(c, t1) IN
    IF key \in KeysOf(c1)
    THEN IF ~expired(t2, Lookup(c1, key).expiry_time)
         THEN [cache |-> c1, result |-> Some(Lookup(c1, key).value)]
         ELSE [cache |-> Delete(c1, key), result |-> None]
    ELSE [cache |-> c1, result |-> None]

needs_room_full(n, max_size, present) == n >= max_size

needs_room_gt(n, max_size, present) == n > max_size /\ ~present

\* the capacity test of set()
needs_room(n, max_size, present) == n >= max_size /\ ~present

expiry_of_stale(t, ttl_seconds) == t

\* expiry_time = time.time() + self.ttl_seconds
expiry_of(t, ttl_seconds) == t + ttl_seconds

TTLCache_set_stale_len(c, key, value, t1, t2, ttl_seconds, max_size) ==
    LET c1 == _evict_expired(c, t1)
        c2 == IF needs_room(Len(c), max_size, key \in KeysOf(c1))
              THEN _evict_oldest(c1) ELSE c1
    IN  Store(c2, key, value, expiry_of(t2, ttl_seconds))

TTLCache_set_then_evict(c, key, value, t1, t2, ttl_seconds, max_size) ==
    LET c1 == _evict_expired(c, t1)
        c2 == Store(c1, key, value, expiry_of(t2, ttl_seconds))
    IN  IF Len(c2) > max_size THEN _evict_oldest_newest(c2) ELSE c2

\* set(key, value) reading the clock as t1 in the sweep and as t2 for the expiry
TTLCache_set(c, key, value, t1, t2, ttl_seconds, max_size) ==
    LET c1 == _evict_expired(c, t1)
        c2 == IF needs_room(Len(c1), max_size, key \in KeysOf(c1))
              THEN _evict_oldest(c1) ELSE c1
    IN  Store(c2, key, value, expiry_of(t2, ttl_seconds))

TTLCache_clear_one(c) == _evict_oldest(c)

\* self._cache.clear()
TTLCache_clear(c) == <<>>

\* exceptions of the dictionary operations the cache uses: self._cache[key] and
\* `del self._cache[key]` raise KeyError for a key the dictionary lacks, min()
\* raises ValueError over no keys
getitem_raises(c, key) == key \notin KeysOf(c)
min_raises(c) == c = <<>>

_evict_oldest_raises_unguarded(c) == min_raises(c)

\* `if self._cache:` comes before min(); the key deleted is the one min() gave
_evict_oldest_raises(c) ==
    c # <<>> /\ (min_raises(c) \/ \E k \in KeysOf(c) \ KeysOf(_evict_oldest(c)) :
                                     getitem_raises(c, k))

\* the keys _evict_expired deletes were read from the dictionary itself
_evict_expired_raises(c, current_time) ==
    \E k \in KeysOf(c) \ KeysOf(_evict_expired(c, current_time)) : getitem_raises(c, k)

\* get() reads and deletes the key only after `if key in self._cache`
get_raises(c, key, t1, t2) ==
    LET c1 == _evict_expired(c, t1) IN
    \/ _evict_expired_raises(c, t1)
    \/ key \in KeysOf(c1) /\ getitem_raises(c1, key)

set_raises(c, key, t1, max_size) ==
    LET c1 == _evict_expired(c, t1) IN
    \/ _evict_expired_raises(c, t1)
    \/ needs_room(Len(c1), max_size, key \in KeysOf(c1)) /\ _evict_oldest_raises(c1)

\* dict.clear() has no failure
clear_raises(c) == FALSE

(***************************************************************************)
(* Characters.  A string of this module holds characters up to U+00FF,     *)
(* but for U+0000 and the grave accent U+0060, which no string of TLA+ can *)
(* hold; the sets below are taken among these.                             *)
(***************************************************************************)
\* the ASCII characters str.isprintable() is false for: U+0001 to U+001F and
\* U+007F
NonPrintable ==
    {"", "", "", "", "", "", "", "",
     "\t", "\n", "", "\f", "\r", "", "", "",
     "", "", "", "", "", "", "", "",
     "", "", "", "", "", "", "", ""}

\* the characters beyond ASCII: U+0080 to U+00FF
NonAscii ==
    {"", "", "", "", "", "", "", "", "", "", "", "",
     "", "", "", "", "", "", "", "", "", "", "", "",
     "", "", "", "", "", "", "", "", " ", "¡", "¢", "£",
     "¤", "¥", "¦", "§", "¨", "©", "ª", "«", "¬", "­", "®", "¯",
     "°", "±", "²", "³", "´", "µ", "¶", "·", "¸", "¹", "º", "»",
     "¼", "½", "¾", "¿", "À", "Á", "Â", "Ã", "Ä", "Å", "Æ", "Ç",
     "È", "É", "Ê", "Ë", "Ì", "Í", "Î", "Ï", "Ð", "Ñ", "Ò", "Ó",
     "Ô", "Õ", "Ö", "×", "Ø", "Ù", "Ú", "Û", "Ü", "Ý", "Þ", "ß",
     "à", "á", "â", "ã", "ä", "å", "æ", "ç", "è", "é", "ê", "ë",
     "ì", "í", "î", "ï", "ð", "ñ", "ò", "ó", "ô", "õ", "ö", "÷",
     "ø", "ù", "ú", "û", "ü", "ý", "þ", "ÿ"}

(***************************************************************************)
(* GitHubRepository._get_cache_key.                                        *)
(***************************************************************************)
_get_cache_key_folded(username) ==
    "github_events:" \o (IF username = "Alice" THEN "alice" ELSE username)

\* f"github_events:{username}"
_get_cache_key(username) == "github_events:" \o username

CacheKeys == {_get_cache_key(u) : u \in Usernames}

(***************************************************************************)
(* Python's int(str): surrounding whitespace is dropped, one sign is       *)
(* allowed, and the rest is decimal digits with single underscores between *)
(* them.  A string is a sequence of one-character strings, each a          *)
(* character up to U+00FF; the decimal digits among these are "0" to "9".  *)
(* None is ValueError.                                                     *)
(***************************************************************************)
Digits == {"0", "1", "2", "3", "4", "5", "6", "7", "8", "9"}

\* the white space int() and pydantic skip at both ends, among the characters
\* up to U+00FF: tab, line feed, vertical tab (U+000B), form feed, carriage
\* return, space, next line (U+0085) and no-break space (U+00A0)
Whitespace == {" ", "\t", "\n", "\r", "\f", "", "", " "}

DigitValue(ch) ==
    CASE ch = "0" -> 0 [] ch = "1" -> 1 [] ch = "2" -> 2 [] ch = "3" -> 3 [] ch = "4" -> 4
      [] ch = "5" -> 5 [] ch = "6" -> 6 [] ch = "7" -> 7 [] ch = "8" -> 8 [] ch = "9" -> 9

RECURSIVE LStrip(_)
LStrip(s) == IF s # <<>> /\ Head(s) \in Whitespace THEN LStrip(Tail(s)) ELSE s

RECURSIVE RStrip(_)
RStrip(s) ==
    IF s # <<>> /\ s[Len(s)] \in Whitespace THEN RStrip(SubSeq(s, 1, Len(s) - 1)) ELSE s

RECURSIVE DecimalValue(_, _)
DecimalValue(s, acc) ==
    IF s = <<>> THEN acc
    ELSE IF Head(s) = "_" THEN DecimalValue(Tail(s), acc)
    ELSE DecimalValue(Tail(s), acc * 10 + DigitValue(Head(s)))

PyInt(str) ==
    LET s == RStrip(LStrip(str))
        signed == s # <<>> /\ Head(s) \in {"+", "-"}
        body == IF signed THEN Tail(s) ELSE s
        wellFormed ==
            /\ body # <<>>
            /\ \A i \in 1..Len(body) : body[i] \in Digits \cup {"_"}
            /\ body[1] \in Digits
            /\ body[Len(body)] \in Digits
            /\ \A i \in 1..(Len(body) - 1) : ~(body[i] = "_" /\ body[i + 1] = "_")
    IN  IF ~wellFormed THEN None
        ELSE IF signed /\ Head(s) = "-" THEN Some(0 - DecimalValue(body, 0))
        ELSE Some(DecimalValue(body, 0))

(***************************************************************************)
(* pydantic's int field given a str (pydantic-core, str_as_int): the       *)
(* string is trimmed, a sign is taken off, leading zeros, a fraction of    *)
(* zeros only and single underscores are removed, and what is left must be *)
(* an integer without leading zeros.  None is a field error.               *)
(***************************************************************************)
NonZeroDigits == Digits \ {"0"}

\* the text from the first character after the leading zeros and underscores
strip_leading_zeros(s) ==
    IF s = <<>> THEN None
    ELSE IF s[1] # "0"
    THEN (IF s[1] \in NonZeroDigits \cup {"-"} THEN Some(s) ELSE None)
    ELSE LET others == {i \in 2..Len(s) : s[i] \notin {"0", "_"}} IN
         IF others = {} THEN Some(<<s[Len(s)]>>)
         ELSE LET i == CHOOSE k \in others : \A m \in others : k <= m IN
              IF s[i] \in NonZeroDigits \cup {"-"} THEN Some(SubSeq(s, i, Len(s)))
              ELSE IF s[i] = "." THEN Some(SubSeq(s, i - 1, Len(s)))
              ELSE None

\* the text before the point, when one or more zeros and nothing else follow it
strip_decimal_zeros(s) ==
    LET points == {i \in 1..Len(s) : s[i] = "."} IN
    IF points = {} THEN Some(s)
    ELSE LET i == CHOOSE k \in points : \A m \in points : k <= m IN
         IF i < Len(s) /\ \A j \in (i + 1)..Len(s) : s[j] = "0"
         THEN Some(SubSeq(s, 1, i - 1))
         ELSE None

\* the text without its underscores, which must stand alone and inside
strip_underscores(s) ==
    LET NoUnderscore(ch) == ch # "_" IN
    IF s = <<>> THEN Some(s)
    ELSE IF \/ s[1] = "_"
            \/ s[Len(s)] = "_"
            \/ \E i \in 1..(Len(s) - 1) : s[i] = "_" /\ s[i + 1] = "_"
    THEN None
    ELSE Some(SelectSeq(s, NoUnderscore))

\* an integer as JSON writes it: "-" at most once, then "0" or digits not
\* starting with "0"
parse_int(s) ==
    LET negative == s # <<>> /\ Head(s) = "-"
        body == IF negative THEN Tail(s) ELSE s
    IN  IF \/ body = <<>>
           \/ \E i \in 1..Len(body) : body[i] \notin Digits
           \/ (Len(body) > 1 /\ body[1] = "0")
        THEN None
        ELSE IF negative THEN Some(0 - DecimalValue(body, 0))
        ELSE Some(DecimalValue(body, 0))

\* each step of str_as_int acts on the text the step before it left
after_leading_zeros(o) == IF o = None THEN None ELSE strip_decimal_zeros(o[1])

after_decimal_zeros(o) == IF o = None THEN None ELSE strip_underscores(o[1])

after_underscores(negative, o) ==
    IF o = None THEN None
    ELSE parse_int(IF negative THEN <<"-">> \o o[1] ELSE o[1])

\* the digits after the sign; a "-" is put back before the final parse
unsigned_as_int(negative, digits) ==
    after_underscores(negative,
        after_decimal_zeros(after_leading_zeros(strip_leading_zeros(digits))))

\* one sign is taken off; a second sign after it is an error
signed_as_int(s) ==
    IF s = <<>> \/ Head(s) \notin {"+", "-"} THEN unsigned_as_int(FALSE, s)
    ELSE IF Len(s) >= 2 /\ s[2] \in {"+", "-"} THEN None
    ELSE unsigned_as_int(Head(s) = "-", Tail(s))

str_as_int(str) == signed_as_int(RStrip(LStrip(str)))

(***************************************************************************)
(* JSON values of an upstream body: [t |-> tag, v |-> content].  An object *)
(* is a record of JSON values; a missing field is a field the record       *)
(* lacks.                                                                  *)
(***************************************************************************)
JInt(n) == [t |-> "int", v |-> n]
JStr(x) == [t |-> "str", v |-> x]
JObj(o) == [t |-> "obj", v |-> o]
JArr(a) == [t |-> "arr", v |-> a]
JNull == [t |-> "null", v |-> 0]

Has(o, f) == f \in DOMAIN o

(***************************************************************************)
(* GitHubEvent.parse_created_at (app/models/github.py).  A timestamp       *)
(* string is a sequence of tokens: date, "T", time and a zone suffix.      *)
(* str.replace turns every "Z" into "+00:00".  datetime.fromisoformat      *)
(* reads a date, then one character as separator, whatever it is, then a   *)
(* time as hh:mm or hh:mm:ss, then a zone; before a zone it lets one stray *)
(* character pass.  So the "+" of an offset after the date is read as the  *)
(* separator and its hh:mm as the time.                                    *)
(***************************************************************************)
IsoDates == {"2026-01-01", "2026-01-15"}
IsoTimes == {"00:00:00", "10:30:00"}
IsoOffsets == {"+00:00", "+02:00"}

\* the zone suffixes fromisoformat reads
IsoZones == IsoOffsets \cup {"Z"}

ReplaceZ(tokens) == [i \in 1..Len(tokens) |-> IF tokens[i] = "Z" THEN "+00:00" ELSE tokens[i]]

OffsetMinutes(tok) == IF tok = "+02:00" THEN 120 ELSE 0

\* the hh:mm of an offset read as a time of day
TimeOfOffset(tok) == IF tok = "+02:00" THEN "02:00:00" ELSE "00:00:00"

\* what follows the time: nothing, a zone, or "T" and a zone
zone_of(date, time, tokens) ==
    IF tokens = <<>>
    THEN Some([date |-> date, time |-> time, utcoffset |-> None])
    ELSE IF Len(tokens) = 1 /\ tokens[1] \in IsoZones
    THEN Some([date |-> date, time |-> time, utcoffset |-> Some(OffsetMinutes(tokens[1]))])
    ELSE IF Len(tokens) = 2 /\ tokens[1] = "T" /\ tokens[2] \in IsoZones
    THEN Some([date |-> date, time |-> time, utcoffset |-> Some(OffsetMinutes(tokens[2]))])
    ELSE None

\* Some(datetime) or None when fromisoformat raises ValueError
fromisoformat(tokens) ==
    IF tokens = <<>> \/ tokens[1] \notin IsoDates THEN None
    ELSE IF Len(tokens) = 1
    THEN Some([date |-> tokens[1], time |-> "00:00:00", utcoffset |-> None])
    ELSE IF tokens[2] \in IsoOffsets
    THEN zone_of(tokens[1], TimeOfOffset(tokens[2]), SubSeq(tokens, 3, Len(tokens)))
    ELSE IF tokens[2] \in {"T", "Z"} /\ Len(tokens) >= 3 /\ tokens[3] \in IsoTimes
    THEN zone_of(tokens[1], tokens[3], SubSeq(tokens, 4, Len(tokens)))
    ELSE None

parse_created_at(v) == fromisoformat(ReplaceZ(v))

(***************************************************************************)
(* The pydantic models of app/models/github.py.  Each validator gives      *)
(* Some(value) or None where pydantic records a field error.               *)
(***************************************************************************)
\* an int field: an integer, or a string pydantic reads as an integer
IntField(o, f) ==
    IF ~Has(o, f) THEN None
    ELSE IF o[f].t = "int" THEN Some(o[f].v)
    ELSE IF o[f].t = "str" THEN str_as_int(o[f].v)
    ELSE None

\* a str field: only a string; a character string is kept as it is
StrField(o, f) ==
    IF Has(o, f) /\ o[f].t = "str" THEN Some(o[f].v) ELSE None

GitHubActor(j) ==
    IF j.t # "obj" THEN None
    ELSE LET login == StrField(j.v, "login")
             id == IntField(j.v, "id")
         IN  IF login = None \/ id = None THEN None
             ELSE Some([login |-> login[1], id |-> id[1]])

GitHubRepositoryResponse(j) ==
    IF j.t # "obj" THEN None
    ELSE LET id == IntField(j.v, "id")
             name == StrField(j.v, "name")
             url == StrField(j.v, "url")
         IN  IF id = None \/ name = None \/ url = None THEN None
             ELSE Some([id |-> id[1], name |-> name[1], url |-> url[1]])

\* GitHubEvent(**event): [error |-> "" and the event] or the exception raised
GitHubEvent(j) ==
    IF j.t # "obj" THEN [error |-> "TypeError", event |-> None]
    ELSE IF Has(j.v, "created_at") /\ j.v.created_at.t # "str"
    THEN [error |-> "AttributeError", event |-> None]
    ELSE LET o == j.v
             id == IntField(o, "id")
             type == StrField(o, "type")
             actor == IF Has(o, "actor") THEN GitHubActor(o.actor) ELSE None
             repo == IF Has(o, "repo") THEN GitHubRepositoryResponse(o.repo) ELSE None
             created_at == IF Has(o, "created_at") THEN parse_created_at(o.created_at.v)
                           ELSE None
         IN  IF id = None \/ type = None \/ actor = None \/ repo = None \/ created_at = None
             THEN [error |-> "ValidationError", event |-> None]
             ELSE [error |-> "",
                   event |-> Some([id |-> id[1], type |-> type[1], actor |-> actor[1],
                                   repo |-> repo[1], created_at |-> created_at[1]])]

(***************************************************************************)
(* Outcomes of get_user_events: the event list returned or the exception   *)
(* raised (app/exceptions.py and the built-in exceptions that escape).     *)
(***************************************************************************)
Outcome(kind, events, username, retry_after, status_code, text) ==
    [kind |-> kind, events |-> events, username |-> username,
     retry_after |-> retry_after, status_code |-> status_code, message |-> text]

Returned(events) == Outcome("ok", events, "-", None, None, "")

\* super().__init__(f"User '{username}' not found", status_code=404)
UserNotFoundError(username) ==
    Outcome("UserNotFoundError", <<>>, username, None, Some(404),
            "User '" \o username \o "' not found")

\* `if retry_after:` adds the seconds to the message unless they are 0
RateLimitError(retry_after) ==
    Outcome("RateLimitError", <<>>, "-", Some(retry_after), Some(429),
            IF retry_after # 0
            THEN "GitHub API rate limit exceeded. Retry after "
                     \o ToString(retry_after) \o " seconds"
            ELSE "GitHub API rate limit exceeded")

GitHubAPIError(text, status_code) ==
    Outcome("GitHubAPIError", <<>>, "-", None, status_code, text)

\* an exception of another class: it has no attribute message
Raised(exception) == Outcome(exception, <<>>, "-", None, None, "")

\* [GitHubEvent(**event) for event in events_data] over the items of a list
RECURSIVE ParseEvents(_, _)
ParseEvents(items, acc) ==
    IF items = <<>> THEN Returned(acc)
    ELSE LET e == GitHubEvent(Head(items)) IN
         IF e.error # "" THEN Raised(e.error)
         ELSE ParseEvents(Tail(items), Append(acc, e.event[1]))

\* the same comprehension over whatever response.json() returned: the keys of
\* an object and the characters of a string are no mappings, and iterating
\* over none of them gives the empty list; a number or null is not iterable
EventsOf(body) ==
    IF body.t = "arr" THEN ParseEvents(body.v, <<>>)
    ELSE IF body.t = "obj" THEN (IF DOMAIN body.v = {} THEN Returned(<<>>) ELSE Raised("TypeError"))
    ELSE IF body.t = "str" THEN (IF Len(body.v) = 0 THEN Returned(<<>>) ELSE Raised("TypeError"))
    ELSE Raised("TypeError")

\* httpx: Response.is_success
is_success(status_code) == status_code >= 200 /\ status_code <= 299

(***************************************************************************)
(* The text of the httpx.HTTPStatusError that Response.raise_for_status()  *)
(* raises: the class of the status, the status with its reason phrase, the *)
(* URL asked for, the Location of a redirect, and a link.  The reason      *)
(* phrase is the one the upstream sent, or the standard one of the status. *)
(***************************************************************************)
\* Settings.github_api_base_url, at its default
github_api_base_url == "https://api.github.com"

\* url = f"{self.base_url}/users/{username}/events"
url_of(username) == github_api_base_url \o "/users/" \o username \o "/events"

(***************************************************************************)
(* httpx.URL(url), as client.get builds it before it sends anything, and   *)
(* str() of it, which is the URL an HTTPStatusError names (httpx 0.28).    *)
(* A URL with a non-printable ASCII character is refused.  The text after  *)
(* the host is split at the first "?" or "#" into path, query and          *)
(* fragment; "." and ".." segments are taken out of the path; and in each  *)
(* part the characters beyond ASCII and the unsafe ones are written as the *)
(* bytes of their UTF-8 encoding, "%" and two hexadecimal digits a byte.  *)
(***************************************************************************)
\* httpx raises InvalidURL for such a URL
InvalidURL(url) == \E i \in 1..Len(url) : SubSeq(url, i, i) \in NonPrintable

\* httpx: percent_encoded(char), for the characters quote() passes to it
percent_encoded(ch) ==
    CASE ch = " " -> "%20"
      [] ch = "\"" -> "%22" [] ch = "<" -> "%3C" [] ch = ">" -> "%3E"
      [] ch = "{" -> "%7B" [] ch = "}" -> "%7D" [] ch = "" -> "%C2%80" [] ch = "" -> "%C2%81"
      [] ch = "" -> "%C2%82" [] ch = "" -> "%C2%83" [] ch = "" -> "%C2%84" [] ch = "" -> "%C2%85"
      [] ch = "" -> "%C2%86" [] ch = "" -> "%C2%87" [] ch = "" -> "%C2%88" [] ch = "" -> "%C2%89"
      [] ch = "" -> "%C2%8A" [] ch = "" -> "%C2%8B" [] ch = "" -> "%C2%8C" [] ch = "" -> "%C2%8D"
      [] ch = "" -> "%C2%8E" [] ch = "" -> "%C2%8F" [] ch = "" -> "%C2%90" [] ch = "" -> "%C2%91"
      [] ch = "" -> "%C2%92" [] ch = "" -> "%C2%93" [] ch = "" -> "%C2%94" [] ch = "" -> "%C2%95"
      [] ch = "" -> "%C2%96" [] ch = "" -> "%C2%97" [] ch = "" -> "%C2%98" [] ch = "" -> "%C2%99"
      [] ch = "" -> "%C2%9A" [] ch = "" -> "%C2%9B" [] ch = "" -> "%C2%9C" [] ch = "" -> "%C2%9D"
      [] ch = "" -> "%C2%9E" [] ch = "" -> "%C2%9F" [] ch = " " -> "%C2%A0" [] ch = "¡" -> "%C2%A1"
      [] ch = "¢" -> "%C2%A2" [] ch = "£" -> "%C2%A3" [] ch = "¤" -> "%C2%A4" [] ch = "¥" -> "%C2%A5"
      [] ch = "¦" -> "%C2%A6" [] ch = "§" -> "%C2%A7" [] ch = "¨" -> "%C2%A8" [] ch = "©" -> "%C2%A9"
      [] ch = "ª" -> "%C2%AA" [] ch = "«" -> "%C2%AB" [] ch = "¬" -> "%C2%AC" [] ch = "­" -> "%C2%AD"
      [] ch = "®" -> "%C2%AE" [] ch = "¯" -> "%C2%AF" [] ch = "°" -> "%C2%B0" [] ch = "±" -> "%C2%B1"
      [] ch = "²" -> "%C2%B2" [] ch = "³" -> "%C2%B3" [] ch = "´" -> "%C2%B4" [] ch = "µ" -> "%C2%B5"
      [] ch = "¶" -> "%C2%B6" [] ch = "·" -> "%C2%B7" [] ch = "¸" -> "%C2%B8" [] ch = "¹" -> "%C2%B9"
      [] ch = "º" -> "%C2%BA" [] ch = "»" -> "%C2%BB" [] ch = "¼" -> "%C2%BC" [] ch = "½" -> "%C2%BD"
      [] ch = "¾" -> "%C2%BE" [] ch = "¿" -> "%C2%BF" [] ch = "À" -> "%C3%80" [] ch = "Á" -> "%C3%81"
      [] ch = "Â" -> "%C3%82" [] ch = "Ã" -> "%C3%83" [] ch = "Ä" -> "%C3%84" [] ch = "Å" -> "%C3%85"
      [] ch = "Æ" -> "%C3%86" [] ch = "Ç" -> "%C3%87" [] ch = "È" -> "%C3%88" [] ch = "É" -> "%C3%89"
      [] ch = "Ê" -> "%C3%8A" [] ch = "Ë" -> "%C3%8B" [] ch = "Ì" -> "%C3%8C" [] ch = "Í" -> "%C3%8D"
      [] ch = "Î" -> "%C3%8E" [] ch = "Ï" -> "%C3%8F" [] ch = "Ð" -> "%C3%90" [] ch = "Ñ" -> "%C3%91"
      [] ch = "Ò" -> "%C3%92" [] ch = "Ó" -> "%C3%93" [] ch = "Ô" -> "%C3%94" [] ch = "Õ" -> "%C3%95"
      [] ch = "Ö" -> "%C3%96" [] ch = "×" -> "%C3%97" [] ch = "Ø" -> "%C3%98" [] ch = "Ù" -> "%C3%99"
      [] ch = "Ú" -> "%C3%9A" [] ch = "Û" -> "%C3%9B" [] ch = "Ü" -> "%C3%9C" [] ch = "Ý" -> "%C3%9D"
      [] ch = "Þ" -> "%C3%9E" [] ch = "ß" -> "%C3%9F" [] ch = "à" -> "%C3%A0" [] ch = "á" -> "%C3%A1"
      [] ch = "â" -> "%C3%A2" [] ch = "ã" -> "%C3%A3" [] ch = "ä" -> "%C3%A4" [] ch = "å" -> "%C3%A5"
      [] ch = "æ" -> "%C3%A6" [] ch = "ç" -> "%C3%A7" [] ch = "è" -> "%C3%A8" [] ch = "é" -> "%C3%A9"
      [] ch = "ê" -> "%C3%AA" [] ch = "ë" -> "%C3%AB" [] ch = "ì" -> "%C3%AC" [] ch = "í" -> "%C3%AD"
      [] ch = "î" -> "%C3%AE" [] ch = "ï" -> "%C3%AF" [] ch = "ð" -> "%C3%B0" [] ch = "ñ" -> "%C3%B1"
      [] ch = "ò" -> "%C3%B2" [] ch = "ó" -> "%C3%B3" [] ch = "ô" -> "%C3%B4" [] ch = "õ" -> "%C3%B5"
      [] ch = "ö" -> "%C3%B6" [] ch = "÷" -> "%C3%B7" [] ch = "ø" -> "%C3%B8" [] ch = "ù" -> "%C3%B9"
      [] ch = "ú" -> "%C3%BA" [] ch = "û" -> "%C3%BB" [] ch = "ü" -> "%C3%BC" [] ch = "ý" -> "%C3%BD"
      [] ch = "þ" -> "%C3%BE" [] ch = "ÿ" -> "%C3%BF"
      [] OTHER -> ch

\* the printable ASCII characters left out of httpx's PATH_SAFE, QUERY_SAFE
\* and FRAG_SAFE, but for the "?" and "#" that end the part and for the
\* grave accent
PathUnsafe == {" ", "\"", "<", ">", "{", "}"}
QueryUnsafe == {" ", "\"", "<", ">"}
FragUnsafe == {" ", "\"", "<", ">"}

\* httpx: quote(string, safe), given the characters that are not safe
RECURSIVE quote(_, _)
quote(string, unsafe) ==
    IF string = "" THEN ""
    ELSE (IF SubSeq(string, 1, 1) \in unsafe \cup NonAscii
          THEN percent_encoded(SubSeq(string, 1, 1))
          ELSE SubSeq(string, 1, 1))
         \o quote(SubSeq(string, 2, Len(string)), unsafe)

\* where the first character of str that is in chars stands, Len(str) + 1
\* when there is none
first_of(str, chars) ==
    LET at == {i \in 1..Len(str) : SubSeq(str, i, i) \in chars} IN
    IF at = {} THEN Len(str) + 1 ELSE CHOOSE i \in at : \A j \in at : i <= j

\* str.split(sep), a list of strings
RECURSIVE split(_, _)
split(str, sep) ==
    IF first_of(str, {sep}) > Len(str) THEN <<str>>
    ELSE <<SubSeq(str, 1, first_of(str, {sep}) - 1)>>
         \o split(SubSeq(str, first_of(str, {sep}) + 1, Len(str)), sep)

\* sep.join(parts)
RECURSIVE join(_, _)
join(parts, sep) ==
    IF parts = <<>> THEN ""
    ELSE IF Len(parts) = 1 THEN parts[1]
    ELSE parts[1] \o sep \o join(Tail(parts), sep)

\* the loop of httpx's normalize_path over the components of a path
RECURSIVE remove_dot_segments(_, _)
remove_dot_segments(components, output) ==
    IF components = <<>> THEN output
    ELSE remove_dot_segments(
             Tail(components),
             IF Head(components) = "." THEN output
             ELSE IF Head(components) = ".."
             THEN (IF output # <<>> /\ output # <<"">>
                   THEN SubSeq(output, 1, Len(output) - 1) ELSE output)
             ELSE Append(output, Head(components)))

\* httpx: normalize_path(path)
normalize_path(path) ==
    IF \A i \in 1..Len(path) : SubSeq(path, i, i) # "." THEN path
    ELSE join(remove_dot_segments(split(path, "/"), <<>>), "/")

\* the query and the fragment of the text `rest` that follows the path: each
\* None, or Some(text)
query_of(rest) ==
    IF rest = "" \/ SubSeq(rest, 1, 1) # "?" THEN None
    ELSE Some(SubSeq(rest, 2, first_of(rest, {"#"}) - 1))

fragment_of(rest) ==
    IF first_of(rest, {"#"}) > Len(rest) THEN None
    ELSE Some(SubSeq(rest, first_of(rest, {"#"}) + 1, Len(rest)))

\* the URL put together again, from the text after the host and where its
\* path ends
unparse(after_host, path_end) ==
    github_api_base_url
        \o quote(normalize_path(SubSeq(after_host, 1, path_end - 1)), PathUnsafe)
        \o (IF query_of(SubSeq(after_host, path_end, Len(after_host))) = None THEN ""
            ELSE "?" \o quote(query_of(SubSeq(after_host, path_end, Len(after_host)))[1],
                              QueryUnsafe))
        \o (IF fragment_of(SubSeq(after_host, path_end, Len(after_host))) = None THEN ""
            ELSE "#" \o quote(fragment_of(SubSeq(after_host, path_end, Len(after_host)))[1],
                              FragUnsafe))

\* str(request.url) of the request made for `url`, a URL under the base URL
request_url(url) ==
    unparse(SubSeq(url, Len(github_api_base_url) + 1, Len(url)),
            first_of(SubSeq(url, Len(github_api_base_url) + 1, Len(url)), {"?", "#"}))

\* str(request.url) of the requests that are made, each worked out once
request_urls ==
    [url \in {url_of(username) : username \in Requested} |-> request_url(url)]

\* httpx.codes.get_reason_phrase
get_reason_phrase(status_code) ==
    CASE status_code = 100 -> "Continue"
      [] status_code = 101 -> "Switching Protocols"
      [] status_code = 102 -> "Processing"
      [] status_code = 103 -> "Early Hints"
      [] status_code = 200 -> "OK"
      [] status_code = 201 -> "Created"
      [] status_code = 202 -> "Accepted"
      [] status_code = 203 -> "Non-Authoritative Information"
      [] status_code = 204 -> "No Content"
      [] status_code = 205 -> "Reset Content"
      [] status_code = 206 -> "Partial Content"
      [] status_code = 207 -> "Multi-Status"
      [] status_code = 208 -> "Already Reported"
      [] status_code = 226 -> "IM Used"
      [] status_code = 300 -> "Multiple Choices"
      [] status_code = 301 -> "Moved Permanently"
      [] status_code = 302 -> "Found"
      [] status_code = 303 -> "See Other"
      [] status_code = 304 -> "Not Modified"
      [] status_code = 305 -> "Use Proxy"
      [] status_code = 307 -> "Temporary Redirect"
      [] status_code = 308 -> "Permanent Redirect"
      [] status_code = 400 -> "Bad Request"
      [] status_code = 401 -> "Unauthorized"
      [] status_code = 402 -> "Payment Required"
      [] status_code = 403 -> "Forbidden"
      [] status_code = 404 -> "Not Found"
      [] status_code = 405 -> "Method Not Allowed"
      [] status_code = 406 -> "Not Acceptable"
      [] status_code = 407 -> "Proxy Authentication Required"
      [] status_code = 408 -> "Request Timeout"
      [] status_code = 409 -> "Conflict"
      [] status_code = 410 -> "Gone"
      [] status_code = 411 -> "Length Required"
      [] status_code = 412 -> "Precondition Failed"
      [] status_code = 413 -> "Request Entity Too Large"
      [] status_code = 414 -> "Request-URI Too Long"
      [] status_code = 415 -> "Unsupported Media Type"
      [] status_code = 416 -> "Requested Range Not Satisfiable"
      [] status_code = 417 -> "Expectation Failed"
      [] status_code = 418 -> "I'm a teapot"
      [] status_code = 421 -> "Misdirected Request"
      [] status_code = 422 -> "Unprocessable Entity"
      [] status_code = 423 -> "Locked"
      [] status_code = 424 -> "Failed Dependency"
      [] status_code = 425 -> "Too Early"
      [] status_code = 426 -> "Upgrade Required"
      [] status_code = 428 -> "Precondition Required"
      [] status_code = 429 -> "Too Many Requests"
      [] status_code = 431 -> "Request Header Fields Too Large"
      [] status_code = 451 -> "Unavailable For Legal Reasons"
      [] status_code = 500 -> "Internal Server Error"
      [] status_code = 501 -> "Not Implemented"
      [] status_code = 502 -> "Bad Gateway"
      [] status_code = 503 -> "Service Unavailable"
      [] status_code = 504 -> "Gateway Timeout"
      [] status_code = 505 -> "HTTP Version Not Supported"
      [] status_code = 506 -> "Variant Also Negotiates"
      [] status_code = 507 -> "Insufficient Storage"
      [] status_code = 508 -> "Loop Detected"
      [] status_code = 510 -> "Not Extended"
      [] status_code = 511 -> "Network Authentication Required"
      [] OTHER -> ""

\* bytes.decode("ascii", errors="ignore"), a byte being a character here: the
\* bytes beyond ASCII are dropped
RECURSIVE decode_ascii_ignore(_)
decode_ascii_ignore(bytes) ==
    IF bytes = "" THEN ""
    ELSE (IF SubSeq(bytes, 1, 1) \in NonAscii THEN "" ELSE SubSeq(bytes, 1, 1))
         \o decode_ascii_ignore(SubSeq(bytes, 2, Len(bytes)))

\* httpx: Response.reason_phrase
reason_phrase(response) ==
    IF response.reason_phrase = None THEN get_reason_phrase(response.status_code)
    ELSE decode_ascii_ignore(response.reason_phrase[1])

\* httpx: Response.has_redirect_location
has_redirect_location(response) ==
    response.status_code \in {301, 302, 303, 307, 308} /\ response.location # None

\* httpx: the error_type of raise_for_status, by the hundreds of the status
error_type(status_code) ==
    CASE status_code \div 100 = 1 -> "Informational response"
      [] status_code \div 100 = 3 -> "Redirect response"
      [] status_code \div 100 = 4 -> "Client error"
      [] status_code \div 100 = 5 -> "Server error"
      [] OTHER -> "Invalid status code"

\* str(e) of the httpx.HTTPStatusError raised for the response to the request
\* made for `url`
HTTPStatusError(response, url) ==
    error_type(response.status_code) \o " '" \o ToString(response.status_code) \o " "
        \o reason_phrase(response) \o "' for url '"
        \o (IF url \in DOMAIN request_urls THEN request_urls[url] ELSE request_url(url))
        \o "'\n"
        \o (IF has_redirect_location(response)
            THEN "Redirect location: '" \o response.location[1] \o "'\n"
            ELSE "")
        \o "For more information check: "
        \o "https://developer.mozilla.org/en-US/docs/Web/HTTP/Status/"
        \o ToString(response.status_code)

(***************************************************************************)
(* GitHubRepository._fetch_from_api once client.get has answered: the      *)
(* outcome for a response, or for a transport failure (httpx.RequestError).*)
(* A body that is no UTF-8, UTF-16 or UTF-32 text makes response.json()    *)
(* raise UnicodeDecodeError, a body that is such text but no JSON makes it *)
(* raise JSONDecodeError; neither is an httpx error.                       *)
(***************************************************************************)
_fetch_from_api(username, response) ==
    IF response.transport_error
    THEN GitHubAPIError("Request error: " \o response.error, None)
    ELSE IF response.status_code = 404 THEN UserNotFoundError(username)
    ELSE IF response.status_code = 429 THEN
        (IF response.retry_after = None THEN RateLimitError(0)
         ELSE IF PyInt(response.retry_after[1]) = None THEN Raised("ValueError")
         ELSE RateLimitError(PyInt(response.retry_after[1])[1]))
    ELSE IF ~is_success(response.status_code)
    THEN GitHubAPIError("GitHub API error: " \o HTTPStatusError(response, url_of(username)),
                        Some(response.status_code))
    ELSE IF response.body.t = "undecodable" THEN Raised("UnicodeDecodeError")
    ELSE IF response.body.t = "invalid" THEN Raised("JSONDecodeError")
    ELSE EventsOf(response.body)

(***************************************************************************)
(* Python strings, character by character: str.lower(), `"/" in s` and     *)
(* s.split("/")[0].  Among the characters up to U+00FF, lower() changes    *)
(* "A" to "Z" and U+00C0 to U+00DE but for the sign U+00D7, each to the    *)
(* character 32 places on.                                                 *)
(***************************************************************************)
lower_char(ch) ==
    CASE ch = "A" -> "a" [] ch = "B" -> "b" [] ch = "C" -> "c" [] ch = "D" -> "d"
      [] ch = "E" -> "e" [] ch = "F" -> "f" [] ch = "G" -> "g" [] ch = "H" -> "h"
      [] ch = "I" -> "i" [] ch = "J" -> "j" [] ch = "K" -> "k" [] ch = "L" -> "l"
      [] ch = "M" -> "m" [] ch = "N" -> "n" [] ch = "O" -> "o" [] ch = "P" -> "p"
      [] ch = "Q" -> "q" [] ch = "R" -> "r" [] ch = "S" -> "s" [] ch = "T" -> "t"
      [] ch = "U" -> "u" [] ch = "V" -> "v" [] ch = "W" -> "w" [] ch = "X" -> "x"
      [] ch = "Y" -> "y" [] ch = "Z" -> "z"
      [] ch = "À" -> "à" [] ch = "Á" -> "á" [] ch = "Â" -> "â" [] ch = "Ã" -> "ã"
      [] ch = "Ä" -> "ä" [] ch = "Å" -> "å" [] ch = "Æ" -> "æ" [] ch = "Ç" -> "ç"
      [] ch = "È" -> "è" [] ch = "É" -> "é" [] ch = "Ê" -> "ê" [] ch = "Ë" -> "ë"
      [] ch = "Ì" -> "ì" [] ch = "Í" -> "í" [] ch = "Î" -> "î" [] ch = "Ï" -> "ï"
      [] ch = "Ð" -> "ð" [] ch = "Ñ" -> "ñ" [] ch = "Ò" -> "ò" [] ch = "Ó" -> "ó"
      [] ch = "Ô" -> "ô" [] ch = "Õ" -> "õ" [] ch = "Ö" -> "ö" [] ch = "Ø" -> "ø"
      [] ch = "Ù" -> "ù" [] ch = "Ú" -> "ú" [] ch = "Û" -> "û" [] ch = "Ü" -> "ü"
      [] ch = "Ý" -> "ý" [] ch = "Þ" -> "þ"
      [] OTHER -> ch

RECURSIVE lower(_)
lower(str) ==
    IF str = "" THEN ""
    ELSE lower_char(SubSeq(str, 1, 1)) \o lower(SubSeq(str, 2, Len(str)))

contains(str, ch) == \E i \in 1..Len(str) : SubSeq(str, i, i) = ch

\* str.split(sep)[0]: the text before the first sep, all of str without one
RECURSIVE split_first(_, _)
split_first(str, sep) ==
    IF str = "" \/ SubSeq(str, 1, 1) = sep THEN ""
    ELSE SubSeq(str, 1, 1) \o split_first(SubSeq(str, 2, Len(str)), sep)

(***************************************************************************)
(* The properties of GitHubRepositoryResponse (app/models/github.py).      *)
(***************************************************************************)
full_name(repo) == repo.name

owner(repo) ==
    [login |-> IF contains(repo.name, "/") THEN split_first(repo.name, "/") ELSE "",
     id |-> 0]

(***************************************************************************)
(* The response models (app/models/schemas.py).  A constructor gives       *)
(* Some(object), or None where pydantic raises ValidationError.            *)
(***************************************************************************)
max_length == 3

ActivityType(type, count) == [type |-> type, count |-> count]

RepositoryActivity(repository_name, is_owner, top_activity_types) ==
    IF Len(top_activity_types) > max_length THEN None
    ELSE Some([repository_name |-> repository_name, is_owner |-> is_owner,
               top_activity_types |-> top_activity_types])

UserActivityResponse_swapped(username, repositories, total_repositories, total_events) ==
    [username |-> username, repositories |-> repositories,
     total_repositories |-> total_events, total_events |-> total_repositories]

UserActivityResponse(username, repositories, total_repositories, total_events) ==
    [username |-> username, repositories |-> repositories,
     total_repositories |-> total_repositories, total_events |-> total_events]

(***************************************************************************)
(* GitHubService (app/services/github_service.py).  A dict is a sequence   *)
(* of [key, value] pairs in insertion order, the order Python iterates it  *)
(* in.                                                                     *)
(***************************************************************************)
top_n == 3

\* a group per maximal run of events of one repository
RECURSIVE group_runs(_, _)
group_runs(events, repo_groups) ==
    IF events = <<>> THEN repo_groups
    ELSE LET event == Head(events)
             n == Len(repo_groups)
         IN  IF n > 0 /\ repo_groups[n].name = full_name(event.repo)
             THEN group_runs(Tail(events),
                             [repo_groups EXCEPT ![n].events = Append(@, event)])
             ELSE group_runs(Tail(events),
                             Append(repo_groups, [name |-> full_name(event.repo),
                                                  events |-> <<event>>]))

_group_events_by_repository_runs(events) == group_runs(events, <<>>)

\* repo_groups[event.repo.full_name].append(event), for the events in order
RECURSIVE group_into(_, _)
group_into(events, repo_groups) ==
    IF events = <<>> THEN repo_groups
    ELSE LET event == Head(events)
             at == {i \in 1..Len(repo_groups) : repo_groups[i].name = full_name(event.repo)}
         IN  IF at = {}
             THEN group_into(Tail(events),
                             Append(repo_groups, [name |-> full_name(event.repo),
                                                  events |-> <<event>>]))
             ELSE group_into(Tail(events),
                             [repo_groups EXCEPT ![CHOOSE i \in at : TRUE].events =
                                                     Append(@, event)])

_group_events_by_repository(events) == group_into(events, <<>>)

\* collections.Counter(items): [item, count] pairs in the order the items first occur
RECURSIVE count_into(_, _)
count_into(items, counter) ==
    IF items = <<>> THEN counter
    ELSE LET at == {i \in 1..Len(counter) : counter[i].item = Head(items)} IN
         IF at = {}
         THEN count_into(Tail(items), Append(counter, [item |-> Head(items), count |-> 1]))
         ELSE count_into(Tail(items),
                         [counter EXCEPT ![CHOOSE i \in at : TRUE].count = @ + 1])

Counter(items) == count_into(items, <<>>)

\* sorted(pairs, key=count, reverse=True): a stable sort, equal counts keep their order
RECURSIVE sorted_by_count(_)
sorted_by_count(pairs) ==
    IF pairs = <<>> THEN <<>>
    ELSE LET i == CHOOSE j \in 1..Len(pairs) :
                    /\ \A m \in 1..Len(pairs) : pairs[j].count >= pairs[m].count
                    /\ \A m \in 1..(j - 1) : pairs[m].count < pairs[j].count
         IN  <<pairs[i]>> \o
             sorted_by_count(SubSeq(pairs, 1, i - 1) \o SubSeq(pairs, i + 1, Len(pairs)))

\* the same sort with equal counts in reverse order
RECURSIVE sorted_by_count_last(_)
sorted_by_count_last(pairs) ==
    IF pairs = <<>> THEN <<>>
    ELSE LET i == CHOOSE j \in 1..Len(pairs) :
                    /\ \A m \in 1..Len(pairs) : pairs[j].count >= pairs[m].count
                    /\ \A m \in (j + 1)..Len(pairs) : pairs[m].count < pairs[j].count
         IN  <<pairs[i]>> \o
             sorted_by_count_last(SubSeq(pairs, 1, i - 1) \o SubSeq(pairs, i + 1, Len(pairs)))

most_common_last(counter, n) ==
    SubSeq(sorted_by_count_last(counter), 1, IF n < Len(counter) THEN n ELSE Len(counter))

most_common_short(counter, n) ==
    SubSeq(sorted_by_count(counter), 1, IF n - 1 < Len(counter) THEN n - 1 ELSE Len(counter))

\* Counter.most_common(n) = heapq.nlargest(n, items, key=count): the n pairs a
\* stable descending sort puts first
most_common(counter, n) ==
    SubSeq(sorted_by_count(counter), 1, IF n < Len(counter) THEN n ELSE Len(counter))

_get_top_activity_types(events, n) ==
    IF events = <<>> THEN <<>>
    ELSE LET counter == Counter([i \in 1..Len(events) |-> events[i].type])
             top_types == most_common(counter, n)
         IN  [i \in 1..Len(top_types) |-> ActivityType(top_types[i].item, top_types[i].count)]

_is_repository_owner_exact(repo, username) == owner(repo).login = username

_is_repository_owner(repo, username) == lower(owner(repo).login) = lower(username)

\* the rest of analyze_user_activity once get_user_events has returned `events`:
\* Some(response), or None when a response model raised ValidationError
analyze_user_activity(username, events) ==
    LET repo_groups == _group_events_by_repository(events)
        built == [i \in 1..Len(repo_groups) |->
                    RepositoryActivity(
                        repo_groups[i].name,
                        _is_repository_owner(repo_groups[i].events[1].repo, username),
                        _get_top_activity_types(repo_groups[i].events, top_n))]
    IN  IF \E i \in 1..Len(built) : built[i] = None THEN None
        ELSE LET repositories == [i \in 1..Len(built) |-> built[i][1]] IN
             Some(UserActivityResponse(username, repositories, Len(repositories), Len(events)))

(***************************************************************************)
(* The request handler get_user_activity (app/api/routes/activity.py):     *)
(* the response for what get_user_events gave.                             *)
(***************************************************************************)
\* e.message of the exceptions of app/exceptions.py
message(outcome) == outcome.message

HTTPException(status_code, detail) ==
    [status_code |-> status_code, detail |-> detail, body |-> None]

or_500_always(status_code) == 500

\* e.status_code or 500
or_500(status_code) ==
    IF status_code = None \/ status_code[1] = 0 THEN 500 ELSE status_code[1]

unexpected_named(exception) == HTTPException(500, exception)

\* `except Exception`: whatever was raised, the detail is one fixed text
unexpected(exception) == HTTPException(500, "Internal server error")

get_user_activity(username, outcome) ==
    IF outcome.kind = "ok" THEN
        (LET response == analyze_user_activity(username, outcome.events) IN
         IF response = None THEN unexpected("ValidationError")
         ELSE [status_code |-> 200, detail |-> "", body |-> Some(response[1])])
    ELSE IF outcome.kind = "UserNotFoundError" THEN HTTPException(404, message(outcome))
    ELSE IF outcome.kind \in {"RateLimitError", "GitHubAPIError"}
    THEN HTTPException(or_500(outcome.status_code), message(outcome))
    ELSE unexpected(outcome.kind)

(***************************************************************************)
(* What the upstream may answer.                                           *)
(***************************************************************************)
Timestamp1 == <<"2026-01-01", "T", "00:00:00", "Z">>
Timestamp2 == <<"2026-01-15", "T", "10:30:00", "+02:00">>

EventJson(id, type, name, created_at) ==
    JObj([id |-> id, type |-> type,
          actor |-> JObj([login |-> JStr("alice"), id |-> JInt(1)]),
          repo |-> JObj([id |-> JInt(1), name |-> name, url |-> JStr("https://api.github.com/repos/r")]),
          created_at |-> created_at])

Event1 == EventJson(JInt(123), JStr("PushEvent"), JStr("alice/repo"), JStr(Timestamp1))
Event2 == EventJson(JStr(<<"4", "5">>), JStr("PullRequestEvent"), JStr("bob/other"), JStr(Timestamp2))

\* an event pydantic accepts although its id is no integer literal and its
\* created_at has no time: id "1.0" is read as 1, "2026-01-15Z" as 00:00
Event3 == EventJson(JStr(<<"1", ".", "0">>), JStr("ForkEvent"), JStr("alice/repo"),
                    JStr(<<"2026-01-15", "Z">>))

\* records that are not a well-formed event
MalformedEvents ==
    << JObj([type |-> JStr("PushEvent")]),
       EventJson(JStr(<<"x">>), JStr("PushEvent"), JStr("alice/repo"), JStr(Timestamp1)),
       EventJson(JInt(123), JInt(7), JStr("alice/repo"), JStr(Timestamp1)),
       EventJson(JInt(123), JStr("PushEvent"), JNull, JStr(Timestamp1)),
       EventJson(JInt(123), JStr("PushEvent"), JStr("alice/repo"), JStr(<<"yesterday">>)),
       EventJson(JInt(123), JStr("PushEvent"), JStr("alice/repo"), JInt(1767225600)),
       JInt(5) >>

Bodies ==
    << [t |-> "invalid", v |-> 0], JArr(<<>>), JArr(<<Event1, Event2>>),
       JObj(<<>>), JObj([message |-> JStr("Not Found")]), JNull >>
    \o [i \in 1..Len(MalformedEvents) |-> JArr(<<Event1, MalformedEvents[i]>>)]
    \o << JStr(<<>>), JArr(<<Event3>>), [t |-> "undecodable", v |-> 0] >>

RetryAfterHeaders ==
    << None, Some(<<"6", "0">>), Some(<<" ", "7">>), Some(<<"W", "e", "d">>),
       Some(<<"\t", "7", "\n">>) >>

ErrorStatuses == <<301, 404, 500>>

\* an answer of the upstream: its status, its reason phrase when it sent one,
\* its Location and Retry-After headers when it has them, and its body
Answer(status_code, phrase, location, retry_after, body) ==
    [transport_error |-> FALSE, error |-> "", status_code |-> status_code,
     reason_phrase |-> phrase, location |-> location,
     retry_after |-> retry_after, body |-> body]

Response(status_code, retry_after, body) == Answer(status_code, None, None, retry_after, body)

\* client.get raises an httpx.RequestError whose text is `text`
RequestError(text) ==
    [transport_error |-> TRUE, error |-> text, status_code |-> 0,
     reason_phrase |-> None, location |-> None, retry_after |-> None, body |-> JNull]

\* the answers tried, in a list: JSON values of different shapes are never compared
Responses ==
    << RequestError("All connection attempts failed"), RequestError(""),
       Answer(301, None, Some("https://api.github.com/users/bob/events"), None, JNull),
       Answer(500, Some("Déjà vu"), None, None, JNull) >>
    \o [i \in 1..Len(ErrorStatuses) |->
          Response(ErrorStatuses[i], None, JObj([message |-> JStr("Not Found")]))]
    \o [i \in 1..Len(RetryAfterHeaders) |-> Response(429, RetryAfterHeaders[i], JNull)]
    \o [i \in 1..Len(Bodies) |-> Response(200, None, Bodies[i])]

(***************************************************************************)
(* Initial state: nothing constructed yet.                                 *)
(***************************************************************************)
NoCall == [op |-> "none", key |-> "-", value |-> "-", t1 |-> 0, t2 |-> 0,
           result |-> None, present |-> FALSE, evicted |-> None, raised |-> FALSE,
           swept |-> FALSE]

\* a request slot: where the call is, what it asks for, how many requests it
\* has sent, and for how many ticks of httpx's timer the upstream has sent
\* nothing
IdleReq == [pc |-> "idle", username |-> "-", calls |-> 0, silence |-> 0]

NoReq == [step |-> "none", username |-> "-", hit |-> FALSE, lookup_time |-> 0,
          calls |-> 0, outcome |-> None, response |-> None]

\* the application before its lifespan has started: no client was created and
\* app.state has no attribute http_client
\* no application object yet: create_app() has not run
NoApp == [lifespan |-> "none", created |-> 0, closed |-> 0, http_client |-> None]

\* no call in flight has been overtaken, nor had the call that ended last
NotOvertaken == [waiting |-> [r \in Reqs |-> FALSE], ended |-> FALSE]

\* a worker thread: where it is in get_cache() and the object it returned
IdleWorker == [pc |-> "idle", got |-> 0]

Start(events) ==
    /\ now = 0
    /\ env \in [cache_ttl_seconds : CfgInts, cache_max_size : CfgInts]
    /\ settings = None
    /\ settings_error = FALSE
    /\ cache_instance = None
    /\ cache = <<>>
    /\ last = NoCall
    /\ last_set = [k \in CacheKeys |-> None]
    /\ req = [r \in Reqs |-> IdleReq]
    /\ last_req = NoReq
    /\ fills = [u \in Requested |-> None]
    /\ feed = events
    /\ http = None
    /\ workers = [t \in Reqs |-> IdleWorker]
    /\ instances = 0
    /\ app_state = NoApp
    /\ overtaken = NotOvertaken

Init == Start(<<>>)

\* the clock readings a handler can get after one reading of `now`
LaterReads == {t \in Times : t = now \/ t = now + 1}

\* config.get_settings(): the settings object afterwards (None when Settings() raised)
get_settings(s, e) == IF s = None THEN Settings(e) ELSE s

(***************************************************************************)
(* dependencies.get_cache(): builds the cache from the settings on the     *)
(* first call; Settings() raising leaves no cache behind.  This is a first *)
(* call that runs from its test to its return while no other thread is     *)
(* inside get_cache(); first calls that overlap are GetCacheTest,          *)
(* GetCacheSettings, GetCacheBuild and GetCacheReturn below.  A later call *)
(* returns the object there is and changes nothing.                        *)
(***************************************************************************)
GetCache ==
    /\ cache_instance = None
    /\ \A t \in Reqs : workers[t].pc = "idle"
    /\ settings' = get_settings(settings, env)
    /\ IF settings' = None
       THEN /\ settings_error' = TRUE
            /\ UNCHANGED cache_instance
       ELSE /\ cache_instance' = Some(TTLCache_init(settings'[1].cache_ttl_seconds,
                                                    settings'[1].cache_max_size,
                                                    "get_cache"))
            /\ UNCHANGED settings_error
    /\ instances' = IF settings' = None THEN instances ELSE instances + 1
    /\ UNCHANGED <<now, env, cache, last, last_set, req, last_req, fills, feed, app_state,
                   workers, http, overtaken>>

(***************************************************************************)
(* TTLCache(ttl_seconds, max_size) called directly with the configured     *)
(* values, as the test fixtures do: __init__ stores what it is given.      *)
(* cache_instance is then the fixture's object, the cache the run goes on  *)
(* to call; the module global of get_cache() plays no part in such a run.  *)
(***************************************************************************)
Construct ==
    /\ cache_instance = None
    /\ cache_instance' = Some(TTLCache_init(env.cache_ttl_seconds, env.cache_max_size,
                                            "direct"))
    /\ UNCHANGED <<now, env, settings, settings_error, cache, last, last_set, req, last_req,
                   fills, feed, app_state, workers, instances, http, overtaken>>

Obj == cache_instance[1]

(***************************************************************************)
(* The cache's operations, called directly.                                *)
(***************************************************************************)
Get(key) ==
    /\ cache_instance # None
    /\ \E t2 \in LaterReads :
         LET r == TTLCache_get(cache, key, now, t2) IN
         /\ cache' = r.cache
         /\ now' = t2
         /\ last' = [op |-> "get", key |-> key, value |-> "-", t1 |-> now, t2 |-> t2,
                     result |-> r.result,
                     present |-> key \in KeysOf(_evict_expired(cache, now)),
                     evicted |-> None,
                     raised |-> get_raises(cache, key, now, t2),
                     swept |-> FALSE]
    /\ UNCHANGED <<env, settings, settings_error, cache_instance, last_set, req, last_req, fills,
                   feed, app_state, workers, instances, http, overtaken>>

\* the key set() removed to make room, if any
EvictedBy(c, key, t1, max_size) ==
    LET c1 == _evict_expired(c, t1)
        c2 == IF needs_room(Len(c1), max_size, key \in KeysOf(c1))
              THEN _evict_oldest(c1) ELSE c1
        gone == KeysOf(c1) \ KeysOf(c2)
    IN  IF gone = {} THEN None ELSE Some(CHOOSE k \in gone : TRUE)

Set(key, value) ==
    /\ cache_instance # None
    /\ \E t2 \in LaterReads :
         LET ev == EvictedBy(cache, key, now, Obj.max_size) IN
         /\ cache' = TTLCache_set(cache, key, value, now, t2, Obj.ttl_seconds, Obj.max_size)
         /\ now' = t2
         /\ last' = [op |-> "set", key |-> key, value |-> value, t1 |-> now, t2 |-> t2,
                     result |-> None,
                     present |-> key \in KeysOf(_evict_expired(cache, now)),
                     evicted |-> ev,
                     raised |-> set_raises(cache, key, now, Obj.max_size),
                     swept |-> /\ Len(cache) >= Obj.max_size
                               /\ Len(_evict_expired(cache, now)) < Obj.max_size]
         /\ last_set' = [k \in CacheKeys |->
                           IF k = key THEN Some([value |-> value, T0 |-> t2])
                           ELSE IF ev = Some(k) THEN None
                           ELSE last_set[k]]
    /\ UNCHANGED <<env, settings, settings_error, cache_instance, req, last_req, fills,
                   feed, app_state, workers, instances, http, overtaken>>

Clear ==
    /\ cache_instance # None
    /\ cache' = TTLCache_clear(cache)
    /\ last' = [NoCall EXCEPT !.op = "clear", !.t1 = now, !.t2 = now,
                              !.raised = clear_raises(cache),
                              !.present = \E i \in 1..Len(cache) : now < cache[i].expiry_time]
    /\ last_set' = [k \in CacheKeys |-> None]
    /\ UNCHANGED <<now, env, settings, settings_error, cache_instance, req, last_req, fills,
                   feed, app_state, workers, instances, http, overtaken>>

\* time passes
Tick ==
    /\ now < MaxTime
    /\ now' = now + 1
    /\ UNCHANGED <<env, settings, settings_error, cache_instance, cache, last, last_set,
                   req, last_req, fills, feed, app_state, workers, instances, http, overtaken>>

CacheCalls ==
    \/ \E key \in CacheKeys : Get(key)
    \/ \E key \in CacheKeys, value \in Values : Set(key, value)
    \/ Clear
    \/ Tick

\* the cache of the running service, called directly
NextCache == GetCache \/ CacheCalls

SpecCache == Init /\ [][NextCache]_vars

\* the cache class, built either by get_cache() or directly
NextCtor ==
    \/ GetCache
    \/ Construct
    \/ CacheCalls

SpecCtor == Init /\ [][NextCtor]_vars

(***************************************************************************)
(* get_cache() as the requests reach it.  get_github_repository is a plain *)
(* `def` dependency, which FastAPI runs in a worker thread of its pool, so *)
(* the get_cache() calls of requests that arrive together run in different *)
(* threads.  A thread can be switched out between its test of              *)
(* _cache_instance, its call of get_settings(), its assignment to          *)
(* _cache_instance and its reading it to return it.                        *)
(***************************************************************************)
\* `if _cache_instance is None`
GetCacheTest(t) ==
    /\ workers[t].pc = "idle"
    /\ workers' = [workers EXCEPT ![t].pc = IF cache_instance = None THEN "building"
                                            ELSE "returning"]
    /\ UNCHANGED <<now, env, settings, settings_error, cache_instance, cache, last, last_set,
                   req, last_req, fills, feed, app_state, http, overtaken, instances>>

\* `settings = get_settings()`: the thread holds the settings object, or
\* Settings() has raised and the call ends there
GetCacheSettings(t) ==
    /\ workers[t].pc = "building"
    /\ settings' = get_settings(settings, env)
    /\ IF settings' = None
       THEN /\ settings_error' = TRUE
            /\ workers' = [workers EXCEPT ![t].pc = "raised"]
       ELSE /\ workers' = [workers EXCEPT ![t].pc = "assigning"]
            /\ UNCHANGED settings_error
    /\ UNCHANGED <<now, env, cache_instance, cache, last, last_set, req, last_req, fills,
                   feed, app_state, http, overtaken, instances>>

\* `_cache_instance = TTLCache(...)`: the name is bound to a new object, whose
\* dictionary is empty; the settings the thread holds are the one object
\* config._settings
GetCacheBuild(t) ==
    /\ workers[t].pc = "assigning"
    /\ cache_instance' = Some(TTLCache_init(settings[1].cache_ttl_seconds,
                                            settings[1].cache_max_size,
                                            "get_cache"))
    /\ cache' = <<>>
    /\ instances' = instances + 1
    /\ workers' = [workers EXCEPT ![t].pc = "returning"]
    /\ UNCHANGED <<now, env, settings, settings_error, last, last_set, req, last_req, fills,
                   feed, app_state, http, overtaken>>

\* `return _cache_instance`: the object the name is bound to at this moment,
\* which is the one built last
GetCacheReturn(t) ==
    /\ workers[t].pc = "returning"
    /\ workers' = [workers EXCEPT ![t] = [pc |-> "returned", got |-> instances]]
    /\ UNCHANGED <<now, env, settings, settings_error, cache_instance, cache, last, last_set,
                   req, last_req, fills, feed, app_state, http, overtaken, instances>>

\* the request the thread worked for has ended; the thread takes the next one
Release(t) ==
    /\ workers[t].pc \in {"returned", "raised"}
    /\ workers' = [workers EXCEPT ![t] = IdleWorker]
    /\ UNCHANGED <<now, env, settings, settings_error, cache_instance, cache, last, last_set,
                   req, last_req, fills, feed, app_state, http, overtaken, instances>>

NextDeps ==
    \/ \E t \in Reqs : GetCacheTest(t)
    \/ \E t \in Reqs : GetCacheSettings(t)
    \/ \E t \in Reqs : GetCacheBuild(t)
    \/ \E t \in Reqs : GetCacheReturn(t)
    \/ \E t \in Reqs : Release(t)

SpecDeps == Init /\ [][NextDeps]_vars

(***************************************************************************)
(* GitHubRepository.get_user_events, one call per request slot.  The call  *)
(* runs without interruption up to `await client.get(...)`, and again from *)
(* the answer to its end: a coroutine is suspended only at its await.      *)
(***************************************************************************)
\* history: the populates whose TTL window is still open at time t
StillOpen(f, t) ==
    [u \in Requested |->
       IF f[u] # None /\ t < f[u][1].T0 + Obj.ttl_seconds THEN f[u] ELSE None]

\* the cache key of every username asked for, each worked out once
cache_keys == [username \in Requested |-> _get_cache_key(username)]

\* history: the response of a populate is kept as long as its entry is
Kept(f, c) ==
    [u \in Requested |->
       IF f[u] # None /\ cache_keys[u] \notin KeysOf(c)
       THEN Some([f[u][1] EXCEPT !.response = None])
       ELSE f[u]]

\* the calls in flight occupy the first slots, in the order they started: a new
\* call takes the first free slot and a call that ends gives its slot up
FirstFree(r) == req[r].pc = "idle" /\ \A q \in 1..(r - 1) : req[q].pc # "idle"

Leave(slots, r) ==
    [i \in Reqs |-> IF i < r THEN slots[i]
                    ELSE IF i + 1 \in Reqs THEN slots[i + 1]
                    ELSE IdleReq]

is_hit_truthy(cached_events) == cached_events # None /\ cached_events[1] # <<>>

\* `if cached_events is not None`
is_hit(cached_events) == cached_events # None

client_get_twice(calls) == calls + 2

client_get_shared(calls) == calls

\* `await self.client.get(url, ...)`: one more request to the upstream
client_get(calls) == calls + 1

populates_never(events) == FALSE

populates_always(events) == TRUE

\* cache.set is reached when _fetch_from_api has returned, not when it raised
populates(events) == events.kind = "ok"

hasattr_http_client_always(state) == TRUE

\* hasattr(request.app.state, "http_client")
hasattr_http_client(state) == state.http_client # None

\* httpx: AsyncClient.is_closed, of the client in app.state
is_closed(state) == state.http_client # None /\ state.http_client[1] <= state.closed

\* the usernames asked for whose URL httpx refuses
Refused == {username \in Requested : InvalidURL(url_of(username))}

\* what client.get raises before it sends anything, None when it sends: it
\* builds the request first, which raises httpx.InvalidURL, and then refuses
\* to send through a closed client with RuntimeError; neither is an
\* httpx.RequestError, so _fetch_from_api lets both through
raises_before_sending(username, closed) ==
    IF username \in Refused THEN Some(Raised("InvalidURL"))
    ELSE IF closed THEN Some(Raised("RuntimeError"))
    ELSE None

events_left_popped(events) ==
    IF events = <<>> THEN <<>> ELSE SubSeq(events, 1, Len(events) - 1)

\* what analyze_user_activity leaves of the list it is handed: it only reads it
events_left(events) == events

\* the cache once the list under `key` has been analysed: the list that
\* get_user_events returns is the very object the cache holds
analysed(c, key) ==
    [i \in 1..Len(c) |->
       IF c[i].key = key THEN [c[i] EXCEPT !.value = events_left(@)] ELSE c[i]]

\* up to the await: the cache lookup, and on a hit the analysis of the list
\* found; on a miss client.get, which sends the request and is awaited, or
\* raises at once and ends the call
Call(r, username) ==
    /\ FirstFree(r)
    /\ cache_instance # None
    /\ \E t2 \in LaterReads :
         LET cache_key == _get_cache_key(username)
             cached_events == TTLCache_get(cache, cache_key, now, t2)
             tested == cache_key \in KeysOf(_evict_expired(cache, now))
             hit == is_hit(cached_events.result)
             unsent == raises_before_sending(username, is_closed(app_state))
             sent == ~hit /\ unsent = None
         IN
         /\ cache' = IF hit THEN analysed(cached_events.cache, cache_key)
                     ELSE cached_events.cache
         /\ now' = t2
         /\ req' = [req EXCEPT ![r] =
                      IF sent
                      THEN [pc |-> "awaiting", username |-> username,
                            calls |-> client_get(0), silence |-> 0]
                      ELSE IdleReq]
         /\ last_req' = [step |-> "call", username |-> username, hit |-> hit,
                         lookup_time |-> IF tested THEN t2 ELSE now,
                         calls |-> IF sent THEN client_get(0) ELSE 0,
                         outcome |-> IF hit THEN Some(Returned(cached_events.result[1]))
                                     ELSE unsent,
                         response |-> None]
         /\ fills' = Kept(StillOpen(fills, now), cache')
    /\ UNCHANGED <<env, settings, settings_error, cache_instance, last, last_set, feed,
                   app_state, workers, instances>>

\* from the answer of client.get to the end of the call, the analysis of the
\* list it returns and the response activity for it; `seen` is what is kept of
\* the answer in last_req
Finish(r, response, seen) ==
    /\ req[r].pc = "awaiting"
    /\ LET username == req[r].username
           cache_key == _get_cache_key(username)
           events == _fetch_from_api(username, response)
       IN
       /\ req' = Leave(req, r)
       /\ http' = Some(get_user_activity(username, events))
       /\ last_req' = [NoReq EXCEPT !.step = "respond", !.username = username,
                                    !.calls = req[r].calls, !.outcome = Some(events),
                                    !.response = seen]
       /\ IF populates(events)
          THEN \E t2 \in LaterReads :
                 LET ev == EvictedBy(cache, cache_key, now, Obj.max_size) IN
                 /\ cache' = analysed(TTLCache_set(cache, cache_key, events.events, now, t2,
                                                   Obj.ttl_seconds, Obj.max_size),
                                      cache_key)
                 /\ now' = t2
                 /\ fills' = Kept([u \in Requested |->
                                IF u = username
                                THEN Some([T0 |-> t2, evicted |-> FALSE,
                                           response |-> http'])
                                ELSE IF ev = Some(cache_keys[u]) /\ fills[u] # None
                                THEN Some([fills[u][1] EXCEPT !.evicted = TRUE])
                                ELSE StillOpen(fills, now)[u]], cache')
          ELSE UNCHANGED <<now, cache, fills>>
    /\ UNCHANGED <<env, settings, settings_error, cache_instance, last, last_set, feed,
                   app_state, workers, instances>>

\* CancelledError raised at the await: it is no httpx error, the call ends there
Cancel(r) ==
    /\ req[r].pc = "awaiting"
    /\ req' = Leave(req, r)
    /\ last_req' = [NoReq EXCEPT !.step = "cancel", !.username = req[r].username,
                                 !.calls = req[r].calls,
                                 !.outcome = Some(Raised("CancelledError"))]
    /\ http' = None
    /\ UNCHANGED <<now, env, settings, settings_error, cache_instance, cache, last, last_set,
                   fills, feed, app_state, workers, instances, overtaken>>

(***************************************************************************)
(* A request to GET /users/{username}/activity: get_user_activity calls    *)
(* analyze_user_activity, which calls get_user_events and analyses what it *)
(* returns.  The response is sent when get_user_events has ended; while    *)
(* the upstream call is in flight there is none.                           *)
(***************************************************************************)
ResponseAfter(step) ==
    IF step.outcome = None THEN None
    ELSE Some(get_user_activity(step.username, step.outcome[1]))

Request(r, username) ==
    /\ Call(r, username)
    /\ http' = ResponseAfter(last_req')
    /\ UNCHANGED overtaken

Reply(r, response, seen) ==
    /\ Finish(r, response, seen)
    /\ UNCHANGED overtaken

Respond(r, response) == Reply(r, response, None)

\* one answer of each kind, for the runs with overlapping requests
AnswerKinds ==
    << Responses[1], Response(404, None, JNull), Response(429, None, JNull),
       Response(200, None, JArr(<<>>)), Response(200, None, JArr(<<Event1, Event2>>)),
       Response(200, None, JArr(<<MalformedEvents[1]>>)) >>

\* the usernames asked for in those runs: two names that differ only in case
ConcurrentUsers == {"alice", "Alice"}

\* these and a username no request can be sent for
Callers == ConcurrentUsers \cup {Unsendable}

\* concurrent requests sharing the cache
Next ==
    \/ GetCache
    \/ \E r \in Reqs, username \in Callers : Request(r, username)
    \/ \E r \in Reqs, i \in 1..Len(AnswerKinds) : Respond(r, AnswerKinds[i])
    \/ \E r \in Reqs : Cancel(r)
    \/ Tick

Spec == Init /\ [][Next]_vars

RespondSeen(response) == Reply(1, response, Some(response))

\* the usernames asked for one at a time: a plain one, one whose URL is
\* written with "%20" and one no request can be sent for
Clients == {"alice", "Zoe Q", Unsendable}

\* one request at a time, every answer of the upstream kept for inspection
NextClient ==
    \/ GetCache
    \/ \E username \in Clients : Request(1, username)
    \/ \E i \in 1..Len(Responses) : RespondSeen(Responses[i])
    \/ Cancel(1)
    \/ Tick

SpecClient == Init /\ [][NextClient]_vars

(***************************************************************************)
(* Overlapping calls whose answers arrive out of order.  The history       *)
(* `overtaken` marks a call in flight once a call for the same username    *)
(* that started after it has populated the cache.                          *)
(***************************************************************************)
\* the marks after call r has received `response`: r's own mark goes with it
Overtaking(marks, r, response) ==
    LET wrote == populates(_fetch_from_api(req[r].username, response))
        marked == [q \in Reqs |->
                     \/ marks[q]
                     \/ /\ wrote
                        /\ q < r
                        /\ req[q].pc = "awaiting"
                        /\ req[q].username = req[r].username]
    IN  [i \in Reqs |-> IF i < r THEN marked[i]
                        ELSE IF i + 1 \in Reqs THEN marked[i + 1]
                        ELSE FALSE]

RaceRequest(r, username) ==
    /\ Call(r, username)
    /\ http' = ResponseAfter(last_req')
    /\ overtaken' = [overtaken EXCEPT !.ended = IF last_req'.hit THEN FALSE ELSE @]

RaceReply(r, response) ==
    /\ Finish(r, response, None)
    /\ overtaken' = [waiting |-> Overtaking(overtaken.waiting, r, response),
                     ended |-> overtaken.waiting[r]]

\* the service with a cache of two entries that live two ticks
InitRace ==
    /\ Start(<<>>)
    /\ env = [cache_ttl_seconds |-> 2, cache_max_size |-> 2]

NextRace ==
    \/ GetCache
    \/ \E r \in Reqs, username \in ConcurrentUsers : RaceRequest(r, username)
    \/ \E r \in Reqs, i \in 1..Len(AnswerKinds) : RaceReply(r, AnswerKinds[i])
    \/ Tick

SpecRace == InitRace /\ [][NextRace]_vars

(***************************************************************************)
(* The analysis of one event feed: the upstream holds the events `feed`    *)
(* and answers every request with them.                                    *)
(***************************************************************************)
MaxEvents == 3
MaxTypes == 4

EventTypes == {"PushEvent", "PullRequestEvent", "IssueCommentEvent", "ForkEvent"}
RepoNames == {"alice/repo", "Alice/Repo", "bob/alice", "alice"}

SeqsUpTo(S, n) == UNION {[1..k -> S] : k \in 0..n}

\* events of one repository with the given types, in this order
OfRepo(name, types) == [i \in 1..Len(types) |-> [type |-> types[i], name |-> name]]

\* two longer feeds: two types seen twice and two seen once; the most frequent
\* type seen last
ExampleFeeds ==
    { OfRepo("alice/repo", <<"PushEvent", "IssueCommentEvent", "PushEvent",
                             "IssueCommentEvent", "PullRequestEvent", "ForkEvent">>),
      OfRepo("alice/repo", <<"PushEvent", "PullRequestEvent", "IssueCommentEvent",
                             "ForkEvent", "ForkEvent">>) }

\* feeds over several repositories, and longer feeds of one repository
Feeds ==
    SeqsUpTo([type : {"PushEvent", "ForkEvent"}, name : RepoNames], MaxEvents)
    \cup SeqsUpTo([type : EventTypes, name : {"alice/repo"}], MaxTypes)
    \cup ExampleFeeds

\* the body GitHub sends for a feed
FeedJson(events) ==
    JArr([i \in 1..Len(events) |->
            EventJson(JInt(i), JStr(events[i].type), JStr(events[i].name), JStr(Timestamp1))])

\* the service configured with a cache of one entry that lives one tick
InitService ==
    \E events \in Feeds :
        /\ Start(events)
        /\ env = [cache_ttl_seconds |-> 1, cache_max_size |-> 1]

Serve == Reply(1, Response(200, None, FeedJson(feed)), None)

\* requests one at a time; the clock advances while they run
NextService ==
    \/ GetCache
    \/ \E username \in ConcurrentUsers : Request(1, username)
    \/ Serve

SpecService == InitService /\ [][NextService]_vars

(***************************************************************************)
(* Properties of the TTL cache, checked under SpecCache and SpecCtor.      *)
(***************************************************************************)
EntriesOf(c) == {c[i] : i \in 1..Len(c)}
LiveAt(c, t) == {e \in EntriesOf(c) : t < e.expiry_time}
KeysIn(entries) == {e.key : e \in entries}

\* a step that is a call of get, resp. of set (every such call changes `last`,
\* or changes nothing at all)
IsGet == last' # last /\ last'.op = "get"
IsSet == last' # last /\ last'.op = "set"

\* C1: get(key) returns a stored value exactly when the cache holds an entry
\* for key whose expiry time is later than the time of the call, and then it
\* returns that entry's value; at the expiry time and later it returns None.
C1_GetServesExactlyUnexpired ==
    [][ IsGet =>
          LET hits == {e \in EntriesOf(cache) :
                         e.key = last'.key /\ last'.t2 < e.expiry_time}
          IN  /\ (last'.result # None) <=> (hits # {})
              /\ \A e \in hits : last'.result = Some(e.value) ]_vars

\* C1 witness: a get made exactly at the expiry time of a stored entry returned None
C1_Witness ==
    /\ last.op = "get"
    /\ last.result = None
    /\ last_set[last.key] # None
    /\ last.t2 = last_set[last.key][1].T0 + Obj.ttl_seconds

\* the keys get() would succeed for now
Served == {k \in CacheKeys : TTLCache_get(cache, k, now, now).result # None}

\* C2, as the claim states it: the cache never holds more than max_size
\* entries, so get succeeds for at most max_size keys at any instant.
C2_SizeBound ==
    /\ Len(cache) <= (IF cache_instance = None THEN 0 ELSE Obj.max_size)
    /\ cache_instance # None => Cardinality(Served) <= Obj.max_size

\* the ceiling a TTLCache keeps: max_size, and one entry when max_size <= 0
Ceiling == IF Obj.max_size >= 1 THEN Obj.max_size ELSE 1

\* C2: a cache holds at most max_size entries when max_size >= 1, and at most
\* one entry when it was built with max_size <= 0; get succeeds for no more
\* keys than that.
C2_SizeBoundFromOne ==
    /\ cache_instance = None => cache = <<>>
    /\ cache_instance # None =>
         /\ Len(cache) <= Ceiling
         /\ Cardinality(Served) <= Ceiling

\* C2 witness: a cache built with a max_size below 1 holds one entry, after a
\* set that removed the entry it held before
C2_Witness ==
    /\ last.op = "set"
    /\ last.evicted # None
    /\ Obj.max_size <= 0
    /\ Len(cache) = 1

\* C7, as the claim states it: set of a key that is absent after the sweep,
\* on a cache that then holds max_size entries, removes exactly one entry, one
\* of least expiry time, and leaves every other entry as it was; the new
\* entry is added.
C7_EvictsOneOfLeastExpiry ==
    [][ IsSet =>
          LET live == LiveAt(cache, last'.t1)
              new == [key |-> last'.key, value |-> last'.value,
                      expiry_time |-> last'.t2 + Obj.ttl_seconds]
          IN  (last'.key \notin KeysIn(live) /\ Cardinality(live) = Obj.max_size) =>
                \E gone \in live :
                    /\ \A e \in live : gone.expiry_time <= e.expiry_time
                    /\ EntriesOf(cache') = (live \ {gone}) \cup {new} ]_vars

\* C7: set of a key that is absent after the sweep, on a cache that then holds
\* max_size entries or more and is not empty, removes exactly one entry, one
\* of least expiry time, and leaves every other entry as it was; on an empty
\* cache, which is at its ceiling when max_size <= 0, it removes nothing.  The
\* new entry is added in both cases.
C7_EvictsOneUnlessEmpty ==
    [][ IsSet =>
          LET live == LiveAt(cache, last'.t1)
              new == [key |-> last'.key, value |-> last'.value,
                      expiry_time |-> last'.t2 + Obj.ttl_seconds]
          IN  (last'.key \notin KeysIn(live) /\ Cardinality(live) >= Obj.max_size) =>
                IF live = {} THEN EntriesOf(cache') = {new}
                ELSE \E gone \in live :
                       /\ \A e \in live : gone.expiry_time <= e.expiry_time
                       /\ EntriesOf(cache') = (live \ {gone}) \cup {new} ]_vars

\* C7 witness: a set of a new key evicted an entry from a cache of two or more
C7_Witness ==
    /\ last.op = "set"
    /\ ~last.present
    /\ last.evicted # None
    /\ Len(cache) >= 2

\* C8: a value stored by set(k, v) at time T0 and not set again, cleared or
\* evicted for capacity is returned by every get(k) before T0 + ttl_seconds
\* and by no get(k) after T0 + ttl_seconds.
C8_TtlWindow ==
    (last.op = "get" /\ last_set[last.key] # None) =>
        LET s == last_set[last.key][1] IN
        /\ last.t2 < s.T0 + Obj.ttl_seconds => last.result = Some(s.value)
        /\ last.t2 > s.T0 + Obj.ttl_seconds => last.result = None

\* C8 witness: a get one tick before the expiry, after time has passed, served the value
C8_Witness ==
    /\ last.op = "get"
    /\ last_set[last.key] # None
    /\ last.t2 > last_set[last.key][1].T0
    /\ last.t2 = last_set[last.key][1].T0 + Obj.ttl_seconds - 1
    /\ last.result = Some(last_set[last.key][1].value)

\* C9: set(k, v2) on a key that is present and unexpired makes get(k) return
\* v2, does not increase the number of entries and removes no other entry,
\* also when the cache is full.
C9_OverwriteInPlace ==
    [][ (IsSet /\ last'.key \in KeysIn(LiveAt(cache, last'.t1))) =>
          /\ TTLCache_get(cache', last'.key, last'.t2, last'.t2).result = Some(last'.value)
          /\ Len(cache') <= Len(cache)
          /\ \A e \in LiveAt(cache, last'.t1) :
               e.key # last'.key => e \in EntriesOf(cache') ]_vars

\* C9 witness: a key was overwritten in a full cache of two or more entries
C9_Witness ==
    /\ last.op = "set"
    /\ last.present
    /\ last.evicted = None
    /\ Len(cache) = Obj.max_size
    /\ Len(cache) >= 2

(***************************************************************************)
(* Construction of the cache, checked under SpecCtor.                      *)
(***************************************************************************)
Positive(c) == c.ttl_seconds > 0 /\ c.max_size > 0

\* C10 as stated: no cache object with a non-positive ttl or size ceiling exists.
C10_NoNonPositiveCache == cache_instance # None => Positive(Obj)

\* C10, amended: Settings() fails on a non-positive cache_ttl_seconds or
\* cache_max_size, so get_cache() never builds a cache from such values;
\* TTLCache.__init__ checks nothing and keeps what it is given.
C10_ValidatedBySettings ==
    LET invalid == env.cache_ttl_seconds <= 0 \/ env.cache_max_size <= 0 IN
    /\ settings # None =>
         settings[1].cache_ttl_seconds > 0 /\ settings[1].cache_max_size > 0
    /\ settings_error <=> (invalid /\ settings = None /\ settings_error)
    /\ invalid => settings = None
    /\ (cache_instance # None /\ Obj.origin = "get_cache") => (Positive(Obj) /\ ~invalid)
    /\ (cache_instance # None /\ Obj.origin = "direct") =>
         /\ Obj.ttl_seconds = env.cache_ttl_seconds
         /\ Obj.max_size = env.cache_max_size

\* C10 witness: get_cache() failed on a size ceiling of 0 and left no cache
C10_Witness ==
    /\ settings_error
    /\ cache_instance = None
    /\ env.cache_max_size = 0

(***************************************************************************)
(* Properties of get_user_events.                                          *)
(***************************************************************************)
\* C3 as stated: a call for a username made inside the TTL window of the
\* latest populate for that username hits the cache and calls no upstream.
C3_HitInsideWindow ==
    (/\ last_req.step = "call"
     /\ fills[last_req.username] # None
     /\ last_req.lookup_time < fills[last_req.username][1].T0 + Obj.ttl_seconds)
    => (last_req.hit /\ last_req.calls = 0)

\* C3, amended: such a call hits the cache, calls no upstream and returns the
\* cached events, unless the entry was evicted for capacity in between by a
\* populate for another username.
C3_HitInsideWindowUnlessEvicted ==
    (/\ last_req.step = "call"
     /\ fills[last_req.username] # None
     /\ last_req.lookup_time < fills[last_req.username][1].T0 + Obj.ttl_seconds
     /\ ~fills[last_req.username][1].evicted)
    => /\ last_req.hit
       /\ last_req.calls = 0
       /\ _get_cache_key(last_req.username) \in KeysOf(cache)
       /\ last_req.outcome =
            Some(Returned(Lookup(cache, _get_cache_key(last_req.username)).value))

\* C3 witness: a later call inside the window was served from the cache
C3_Witness ==
    /\ last_req.step = "call"
    /\ last_req.hit
    /\ fills[last_req.username] # None
    /\ last_req.lookup_time > fills[last_req.username][1].T0

Seen == last_req.response[1]
Out == last_req.outcome[1]
Answered == last_req.step = "respond" /\ last_req.response # None

\* C4: on a miss, 404 gives UserNotFoundError with the username, 429 gives
\* RateLimitError with the integer of Retry-After (0 without the header), any
\* other non-2xx status gives GitHubAPIError with that status, and a transport
\* failure gives GitHubAPIError without a status.
C4_ErrorMapping ==
    Answered =>
        /\ Seen.transport_error =>
             (Out.kind = "GitHubAPIError" /\ Out.status_code = None)
        /\ (~Seen.transport_error /\ Seen.status_code = 404) =>
             Out = UserNotFoundError(last_req.username)
        /\ (~Seen.transport_error /\ Seen.status_code = 429) =>
             /\ Out.kind = "RateLimitError"
             /\ Out.status_code = Some(429)
             /\ Seen.retry_after = None => Out.retry_after = Some(0)
             /\ Seen.retry_after = Some(<<"6", "0">>) => Out.retry_after = Some(60)
        /\ (/\ ~Seen.transport_error
            /\ Seen.status_code \notin {404, 429}
            /\ ~(Seen.status_code >= 200 /\ Seen.status_code <= 299)) =>
             (Out.kind = "GitHubAPIError" /\ Out.status_code = Some(Seen.status_code))

PublicKinds == {"UserNotFoundError", "RateLimitError", "GitHubAPIError"}

\* C5: a call that does not return an event list ends with a failure of the
\* public taxonomy.
C5_OnlyTypedFailures ==
    (last_req.step = "respond" /\ Out.kind # "ok") => Out.kind \in PublicKinds

\* C6: a 2xx answer whose list holds a malformed event record ends with
\* GitHubAPIError.
C6_MalformedRecordIsUpstreamError ==
    (/\ Answered
     /\ ~Seen.transport_error
     /\ Seen.status_code >= 200 /\ Seen.status_code <= 299
     /\ Seen.body.t = "arr"
     /\ \E i \in 1..Len(Seen.body.v) : GitHubEvent(Seen.body.v[i]).error # "")
    => Out.kind = "GitHubAPIError"

(***************************************************************************)
(* Properties of get_user_events under overlapping requests (Spec).        *)
(***************************************************************************)
\* C11: when a call that missed the cache ends with the upstream's events, the
\* cache holds, as the call returns, an unexpired entry under the key of its
\* username whose value is the event list the call returned.
C11_PopulatedOnSuccess ==
    (last_req.step = "respond" /\ Out.kind = "ok") =>
        LET cache_key == _get_cache_key(last_req.username) IN
        /\ cache_key \in KeysOf(cache)
        /\ Lookup(cache, cache_key).value = Out.events
        /\ fills[last_req.username] # None
        /\ Lookup(cache, cache_key).expiry_time > fills[last_req.username][1].T0

\* C11 witness: a call that missed returned two events while the other request
\* was still waiting for the upstream
C11_Witness ==
    /\ last_req.step = "respond"
    /\ Out.kind = "ok"
    /\ Len(Out.events) = 2
    /\ \E r \in Reqs : req[r].pc = "awaiting"

\* a URL can be built for the username: it holds no non-printable ASCII
\* character
Sendable(username) ==
    \A i \in 1..Len(username) : SubSeq(username, i, i) \notin NonPrintable

\* C12, as the claim states it: a call has made no upstream request when its
\* lookup hit and exactly one when it missed, while it waits and when it has
\* ended, whatever the upstream answered: no failure is followed by a second
\* request.
C12_AtMostOneUpstreamCall ==
    /\ \A r \in Reqs : req[r].calls = (IF req[r].pc = "awaiting" THEN 1 ELSE 0)
    /\ last_req.step = "call" => last_req.calls = (IF last_req.hit THEN 0 ELSE 1)
    /\ last_req.step \in {"respond", "cancel"} => last_req.calls = 1

\* C12: a call makes at most one upstream request: none when its lookup hit;
\* on a miss exactly one, which it then awaits, unless client.get raises
\* before it sends, InvalidURL for a username no URL can be built for or
\* RuntimeError through a closed client, and then none and the call has
\* ended; a call that was answered or cancelled has made exactly one, whatever
\* the answer: no failure is followed by a second request.
C12_OneRequestIfSent ==
    /\ \A r \in Reqs : req[r].calls = (IF req[r].pc = "awaiting" THEN 1 ELSE 0)
    /\ last_req.calls \in {0, 1}
    /\ (last_req.step = "call" /\ last_req.hit) => last_req.calls = 0
    /\ (last_req.step = "call" /\ ~last_req.hit) =>
         /\ ~Sendable(last_req.username) =>
               last_req.outcome = Some(Raised("InvalidURL"))
         /\ \/ /\ last_req.outcome = None
               /\ last_req.calls = 1
               /\ Sendable(last_req.username)
               /\ \E r \in Reqs : req[r].pc = "awaiting" /\ req[r].username = last_req.username
            \/ /\ last_req.outcome = Some(Raised("InvalidURL"))
               /\ last_req.calls = 0
               /\ ~Sendable(last_req.username)
            \/ /\ last_req.outcome = Some(Raised("RuntimeError"))
               /\ last_req.calls = 0
               /\ Sendable(last_req.username)
               /\ app_state.closed >= 1
    /\ last_req.step \in {"respond", "cancel"} => last_req.calls = 1

\* C12 witness: a call for a username with a line feed missed and ended with
\* InvalidURL, no request sent, while another call awaits the answer to its
\* one request
C12_Witness ==
    /\ last_req.step = "call"
    /\ ~last_req.hit
    /\ last_req.username = Unsendable
    /\ last_req.calls = 0
    /\ \E r \in Reqs : req[r].pc = "awaiting" /\ req[r].calls = 1

\* C13: the step that ends a call with a failure, or cancels it at its await,
\* leaves the cache as it was; the lookup of a call that misses only removes
\* entries, each of them expired when the lookup ends.
C13_NoPopulateOnFailure ==
    [][ (last_req' # last_req) =>
          /\ (/\ last_req'.step \in {"respond", "cancel"}
              /\ last_req'.outcome[1].kind # "ok") => cache' = cache
          /\ (last_req'.step = "call" /\ ~last_req'.hit) =>
               /\ EntriesOf(cache') \subseteq EntriesOf(cache)
               /\ \A e \in EntriesOf(cache) \ EntriesOf(cache') : e.expiry_time <= now' ]_vars

\* C13 witness: a call was cancelled while the cache held an entry
C13_Witness ==
    /\ last_req.step = "cancel"
    /\ cache # <<>>

(***************************************************************************)
(* Properties of the analysis, checked against the feed (SpecService).     *)
(***************************************************************************)
Reported == http # None /\ http[1].status_code = 200
Report == http[1].body[1]
Repositories == Report.repositories

\* where a repository name, resp. a type within a repository, first occurs in the feed
FirstOfRepo(name) == CHOOSE k \in 1..Len(feed) :
    feed[k].name = name /\ \A m \in 1..(k - 1) : feed[m].name # name
InGroup(name) == {k \in 1..Len(feed) : feed[k].name = name}
TypesIn(name) == {feed[k].type : k \in InGroup(name)}
CountIn(name, type) == Cardinality({k \in InGroup(name) : feed[k].type = type})
FirstSeenIn(name, type) == CHOOSE k \in InGroup(name) :
    feed[k].type = type /\ \A m \in InGroup(name) : feed[m].type = type => k <= m

\* C14: the report holds exactly one repository per distinct repository name of
\* the event list, in the order in which the names first occur in the list.
C14_OneGroupPerRepositoryInOrder ==
    Reported =>
        /\ {Repositories[i].repository_name : i \in 1..Len(Repositories)}
             = {feed[k].name : k \in 1..Len(feed)}
        /\ \A i, j \in 1..Len(Repositories) :
             i < j => FirstOfRepo(Repositories[i].repository_name)
                        < FirstOfRepo(Repositories[j].repository_name)

\* C14 witness: a report of two repositories for a feed that returns to the
\* first repository after the second
C14_Witness ==
    /\ Reported
    /\ Len(feed) = 3
    /\ feed[1].name = feed[3].name
    /\ feed[1].name # feed[2].name
    /\ Len(Repositories) = 2

\* C15: top_activity_types of every repository is in descending order of count,
\* equal counts in the order their types were first seen in the repository's
\* events; each count is the number of the repository's events of that type;
\* and no type left out ranks before a listed one.
C15_TopTypesRanked ==
    Reported =>
        \A i \in 1..Len(Repositories) :
            LET name == Repositories[i].repository_name
                top == Repositories[i].top_activity_types
                Before(t, u) ==
                    \/ CountIn(name, t) > CountIn(name, u)
                    \/ /\ CountIn(name, t) = CountIn(name, u)
                       /\ FirstSeenIn(name, t) < FirstSeenIn(name, u)
            IN  /\ \A a \in 1..Len(top) :
                     top[a].type \in TypesIn(name) /\ top[a].count = CountIn(name, top[a].type)
                /\ \A a, b \in 1..Len(top) : a < b => Before(top[a].type, top[b].type)
                /\ \A t \in TypesIn(name) \ {top[a].type : a \in 1..Len(top)} :
                     \A a \in 1..Len(top) : Before(top[a].type, t)

\* C15 witness: two types seen twice, two seen once, the later of these left out
C15_Witness ==
    /\ Reported
    /\ Len(Repositories) = 1
    /\ Repositories[1].top_activity_types =
         << ActivityType("PushEvent", 2), ActivityType("IssueCommentEvent", 2),
            ActivityType("PullRequestEvent", 1) >>

\* C16: top_activity_types of every repository holds min(3, number of distinct
\* types of the repository's events) entries: at most 3 and at least 1.
C16_TopTypesLength ==
    Reported =>
        \A i \in 1..Len(Repositories) :
            LET distinct == Cardinality(TypesIn(Repositories[i].repository_name))
                n == Len(Repositories[i].top_activity_types)
            IN  /\ n = (IF distinct < 3 THEN distinct ELSE 3)
                /\ n <= 3
                /\ n >= 1

\* C16 witness: a repository with four distinct types lists three of them
C16_Witness ==
    /\ Reported
    /\ Len(Repositories) = 1
    /\ Cardinality(TypesIn(Repositories[1].repository_name)) = 4
    /\ Len(Repositories[1].top_activity_types) = 3

\* the text before the first "/" of a name, "" for a name without "/"
OwnerText(name) ==
    LET slashes == {k \in 1..Len(name) : SubSeq(name, k, k) = "/"} IN
    IF slashes = {} THEN ""
    ELSE SubSeq(name, 1, (CHOOSE k \in slashes : \A m \in slashes : k <= m) - 1)

\* the capital letters among the characters up to U+00FF and, place by place,
\* the small letters str.lower() gives for them
Capitals == "ABCDEFGHIJKLMNOPQRSTUVWXYZÀÁÂÃÄÅÆÇÈÉÊËÌÍÎÏÐÑÒÓÔÕÖØÙÚÛÜÝÞ"
Smalls == "abcdefghijklmnopqrstuvwxyzàáâãäåæçèéêëìíîïðñòóôõöøùúûüýþ"

\* a character lower-cased
Folded(ch) ==
    LET places == {k \in 1..Len(Capitals) : SubSeq(Capitals, k, k) = ch} IN
    IF places = {} THEN ch
    ELSE SubSeq(Smalls, CHOOSE k \in places : TRUE, CHOOSE k \in places : TRUE)

\* a text lower-cased, as the list of its characters
LowerCased(text) == [k \in 1..Len(text) |-> Folded(SubSeq(text, k, k))]

SameIgnoringCase(a, b) == LowerCased(a) = LowerCased(b)

\* feeds of repositories whose owners are written with letters beyond ASCII,
\* asked for by usernames that differ from them in case or in an accent
MaxOwned == 2

OwnedNames == {"Émile/repo", "éMILE/Repo", "emile/repo", "Émile", "/repo",
               "Straße/Émile"}

InitOwner ==
    \E events \in SeqsUpTo([type : {"PushEvent"}, name : OwnedNames], MaxOwned) :
        /\ Start(events)
        /\ env = [cache_ttl_seconds |-> 1, cache_max_size |-> 1]

NextOwner ==
    \/ GetCache
    \/ \E username \in Owners : Request(1, username)
    \/ Serve

SpecOwner == InitOwner /\ [][NextOwner]_vars

\* C17: is_owner of a repository is true exactly when the text before the first
\* "/" of its name ("" for a name without "/") and the requested username are
\* the same once both are lower-cased.
C17_OwnerIgnoringCase ==
    Reported =>
        \A i \in 1..Len(Repositories) :
            Repositories[i].is_owner
              <=> SameIgnoringCase(OwnerText(Repositories[i].repository_name), Report.username)

\* C17 witness: "émile" owns "Émile/repo" and does not own "emile/repo"
C17_Witness ==
    /\ Reported
    /\ Report.username = "émile"
    /\ Len(Repositories) = 2
    /\ \A i \in 1..2 :
         /\ Repositories[i].repository_name \in {"Émile/repo", "emile/repo"}
         /\ Repositories[i].is_owner <=> Repositories[i].repository_name = "Émile/repo"

\* C18: total_events is the length of the event list, total_repositories is the
\* length of repositories and the number of distinct repository names.
C18_Totals ==
    Reported =>
        /\ Report.total_events = Len(feed)
        /\ Report.total_repositories = Len(Repositories)
        /\ Report.total_repositories = Cardinality({feed[k].name : k \in 1..Len(feed)})

\* C18 witness: three events of two repositories
C18_Witness ==
    /\ Reported
    /\ Report.total_events = 3
    /\ Report.total_repositories = 2

(***************************************************************************)
(* Properties of the request handler, one request at a time (SpecClient).  *)
(***************************************************************************)
EmptyReport(username) ==
    Some([status_code |-> 200, detail |-> "",
          body |-> Some([username |-> username, repositories |-> <<>>,
                         total_repositories |-> 0, total_events |-> 0])])

\* C19: a request whose event list is empty is answered 200 with a report of
\* the username, no repositories and both totals 0; a lookup that finds an
\* unexpired entry holding the empty list is a hit: no upstream call, the same
\* report.
C19_EmptyListIsAReport ==
    [][ (last_req' # last_req) =>
          /\ last_req'.outcome = Some(Returned(<<>>)) => http' = EmptyReport(last_req'.username)
          /\ LET cache_key == _get_cache_key(last_req'.username) IN
             (/\ last_req'.step = "call"
              /\ cache_key \in KeysOf(cache)
              /\ Lookup(cache, cache_key).value = <<>>
              /\ now' < Lookup(cache, cache_key).expiry_time)
             => /\ last_req'.hit
                /\ last_req'.calls = 0
                /\ http' = EmptyReport(last_req'.username) ]_vars

\* C19 witness: an empty list was served from the cache and reported
C19_Witness ==
    /\ last_req.step = "call"
    /\ last_req.hit
    /\ last_req.outcome = Some(Returned(<<>>))
    /\ http = EmptyReport(last_req.username)

\* C20, as the claim states it: every request that has ended has one
\* response: 200 when get_user_events returned, 404 for UserNotFoundError, 429
\* for RateLimitError, the status a GitHubAPIError carries or 500 when it
\* carries none, and 500 for any other exception; a request waiting for the
\* upstream has none yet.
C20_StatusMapping ==
    /\ last_req.outcome = None => http = None
    /\ last_req.outcome # None =>
         /\ http # None
         /\ http[1].status_code =
              (IF Out.kind = "ok" THEN 200
               ELSE IF Out.kind = "UserNotFoundError" THEN 404
               ELSE IF Out.kind = "RateLimitError" THEN 429
               ELSE IF Out.kind = "GitHubAPIError" /\ Out.status_code # None
               THEN Out.status_code[1]
               ELSE 500)
         /\ (http[1].body # None) <=> (Out.kind = "ok")

\* C20: a request whose handler ran to its end has one response: 200 when
\* get_user_events returned, 404 for UserNotFoundError, 429 for
\* RateLimitError, the status a GitHubAPIError carries or 500 when it carries
\* none, and 500 for any other exception; a request waiting for the upstream
\* has none yet, and a request cancelled at its await gets none from the
\* handler, CancelledError being no Exception.  The handler runs in the steps
\* "call" and "respond" of a request.
C20_StatusMappingUnlessCancelled ==
    /\ last_req.outcome = None => http = None
    /\ last_req.step = "cancel" =>
         /\ last_req.outcome = Some(Raised("CancelledError"))
         /\ http = None
    /\ (last_req.outcome # None /\ last_req.step \in {"call", "respond"}) =>
         /\ http # None
         /\ http[1].status_code =
              (IF Out.kind = "ok" THEN 200
               ELSE IF Out.kind = "UserNotFoundError" THEN 404
               ELSE IF Out.kind = "RateLimitError" THEN 429
               ELSE IF Out.kind = "GitHubAPIError" /\ Out.status_code # None
               THEN Out.status_code[1]
               ELSE 500)
         /\ (http[1].body # None) <=> (Out.kind = "ok")

\* C20 witness: a transport failure was answered 500
C20_Witness ==
    /\ last_req.step = "respond"
    /\ Out.kind = "GitHubAPIError"
    /\ Out.status_code = None
    /\ http # None
    /\ http[1].status_code = 500

(***************************************************************************)
(* The fixed answer to unexpected faults, checked under SpecClient.        *)
(***************************************************************************)
InternalFault ==
    /\ last_req.step \in {"call", "respond"}
    /\ last_req.outcome # None
    /\ http # None
    /\ Out.kind \notin PublicKinds \cup {"ok"}

\* C21: a call that ends with an exception other than UserNotFoundError,
\* RateLimitError and GitHubAPIError is answered with status 500 and the fixed
\* detail "Internal server error", whatever the exception was.
C21_FixedInternalError ==
    InternalFault =>
        http[1] = [status_code |-> 500, detail |-> "Internal server error", body |-> None]

\* C21 witness: a Retry-After that is no integer raised ValueError and the
\* answer carries the fixed detail
C21_Witness ==
    /\ InternalFault
    /\ Out.kind = "ValueError"
    /\ Seen.status_code = 429
    /\ http[1].detail = "Internal server error"

(***************************************************************************)
(* The cache singleton, checked under SpecDeps.                            *)
(***************************************************************************)
\* C22: get_cache() builds at most one TTLCache, and the calls that have
\* returned all returned the same object, also when the first calls overlap.
C22_OneInstance ==
    /\ instances <= 1
    /\ \A t \in Reqs, u \in Reqs :
         (workers[t].pc = "returned" /\ workers[u].pc = "returned")
            => workers[t].got = workers[u].got

(***************************************************************************)
(* Cache keys of different usernames, checked under Spec.                  *)
(***************************************************************************)
\* C23: the key is "github_events:" followed by the username as given, so
\* different usernames, also two that differ only in case, have different
\* keys; a call served from the cache is served what a call for the same
\* username stored, inside the window of that populate.
C23_KeysApart ==
    /\ \A u \in Usernames : _get_cache_key(u) = "github_events:" \o u
    /\ \A u \in Usernames, v \in Usernames :
         u # v => _get_cache_key(u) # _get_cache_key(v)
    /\ (last_req.step = "call" /\ last_req.hit) =>
         /\ fills[last_req.username] # None
         /\ last_req.lookup_time < fills[last_req.username][1].T0 + Obj.ttl_seconds

\* C23 witness: "Alice" was served from the cache while the cache also held a
\* different list stored for "alice"
C23_Witness ==
    /\ last_req.step = "call"
    /\ last_req.hit
    /\ last_req.username = "Alice"
    /\ _get_cache_key("alice") \in KeysOf(cache)
    /\ Lookup(cache, _get_cache_key("alice")).value # Out.events

(***************************************************************************)
(* Overlapping requests on one cache, checked under Spec.                  *)
(***************************************************************************)
Awaiting(username) == {r \in Reqs : req[r].pc = "awaiting" /\ req[r].username = username}

\* C24: every step leaves each cache entry either as it was or as the one
\* set() call of the step wrote it, with the value and the expiry time of
\* that call; so no entry pairs the value of one set with the expiry of
\* another, however the requests interleave.
C24_EntriesWrittenWhole ==
    [][\A e \in EntriesOf(cache') :
          \/ e \in EntriesOf(cache)
          \/ /\ last_req'.step = "respond"
             /\ last_req'.outcome[1].kind = "ok"
             /\ e = [key |-> _get_cache_key(last_req'.username),
                     value |-> last_req'.outcome[1].events,
                     expiry_time |-> now' + Obj.ttl_seconds]]_vars

\* C24 witness: a request has just written the entry of its username while
\* another request for that username is still waiting for the upstream
C24_Witness ==
    /\ last_req.step = "respond"
    /\ Out.kind = "ok"
    /\ Out.events # <<>>
    /\ Awaiting(last_req.username) # {}
    /\ fills[last_req.username] # None
    /\ Lookup(cache, _get_cache_key(last_req.username)) =
          [key |-> _get_cache_key(last_req.username), value |-> Out.events,
           expiry_time |-> now + Obj.ttl_seconds]

\* C25, as the claim states it: nothing joins the calls for one username:
\* every call in flight has issued its own upstream request, a call that
\* misses is in flight whoever else is, a call is served without the upstream
\* only from an entry of the cache, and the cache never holds two entries
\* under one key.
C25_NoSingleFlight ==
    /\ \A r \in Reqs : req[r].pc = "awaiting" => req[r].calls = 1
    /\ (last_req.step = "call" /\ ~last_req.hit) =>
         /\ last_req.calls = 1
         /\ Awaiting(last_req.username) # {}
    /\ (last_req.step = "call" /\ last_req.hit) =>
         _get_cache_key(last_req.username) \in KeysOf(cache)
    /\ \A i \in 1..Len(cache), j \in 1..Len(cache) :
         cache[i].key = cache[j].key => i = j

\* the entries of the cache under the key of a username
EntriesFor(c, username) == {i \in 1..Len(c) : c[i].key = _get_cache_key(username)}

\* C25: nothing joins the calls for one username.  A call that looks up the
\* cache and finds no unexpired entry for its username misses, whether or not
\* another call for that username is in flight; if a URL can be built for
\* the username and the client is open it issues an upstream request of its
\* own and is in flight beside the other; if no URL can be built it ends at
\* once with InvalidURL and no upstream request, as every call for that
\* username does, and through a closed client it ends at once with
\* RuntimeError and no upstream request.  Every call in flight has issued
\* one request of its own, and a call that ends with the upstream's events
\* leaves exactly one entry for its username in the cache.
C25_NoSingleFlightWhenSent ==
    [][ /\ \A r \in Reqs : req'[r].pc = "awaiting" => req'[r].calls = 1
        /\ \A username \in Callers :
              (/\ last_req' # last_req \/ \E r \in Reqs : req'[r].pc # req[r].pc
               /\ last_req'.step = "call"
               /\ last_req'.username = username
               /\ \A e \in EntriesOf(cache) :
                     e.key = _get_cache_key(username) => e.expiry_time <= now')
              => /\ ~last_req'.hit
                 /\ (Sendable(username) /\ ~is_closed(app_state)) =>
                       /\ last_req'.calls = 1
                       /\ Cardinality(Awaiting(username)')
                            = Cardinality(Awaiting(username)) + 1
                 /\ ~Sendable(username) =>
                       /\ last_req'.calls = 0
                       /\ last_req'.outcome = Some(Raised("InvalidURL"))
                       /\ req' = req
                 /\ (Sendable(username) /\ is_closed(app_state)) =>
                       /\ last_req'.calls = 0
                       /\ last_req'.outcome = Some(Raised("RuntimeError"))
                       /\ req' = req
        /\ (last_req' # last_req /\ last_req'.step = "respond"
               /\ last_req'.outcome[1].kind = "ok")
              => Cardinality(EntriesFor(cache', last_req'.username)) = 1
        /\ \A username \in Callers : Cardinality(EntriesFor(cache', username)) <= 1 ]_vars

\* two calls for one username were in flight together
BothInFlight ==
    /\ req[1].pc = "awaiting"
    /\ req[2].pc = "awaiting"
    /\ req[1].username = req[2].username

\* C25 witness: the second of two calls for one username has missed while
\* the first was still in flight, and the cache has no entry for them yet
C25_Witness ==
    /\ BothInFlight
    /\ last_req.step = "call"
    /\ ~last_req.hit
    /\ last_req.username = req[1].username
    /\ _get_cache_key(req[1].username) \notin KeysOf(cache)

(***************************************************************************)
(* More properties of the TTL cache, checked under SpecCache.              *)
(***************************************************************************)
\* C26: right after clear() the cache holds nothing, expired or not, and a
\* key without a set() since the latest clear() is reported absent by get().
C26_ClearEmpties ==
    /\ last.op = "clear" => cache = <<>>
    /\ \A k \in CacheKeys :
         last_set[k] = None => TTLCache_get(cache, k, now, now).result = None

\* C26 witness: clear() was called on a cache that held an entry still inside
\* its lifetime
C26_Witness ==
    /\ last.op = "clear"
    /\ last.present
    /\ cache = <<>>

(***************************************************************************)
(* The cache calls never raise, checked under SpecCtor: the cache built by *)
(* get_cache() and the one built directly, whatever its sizes.             *)
(***************************************************************************)
\* C27: no cache call has raised, and in the state reached none would: get()
\* of any key, set() of any key and clear() complete, and get() reports a key
\* that is missing or expired as None.
C27_CacheNeverRaises ==
    cache_instance # None =>
        /\ ~last.raised
        /\ ~clear_raises(cache)
        /\ \A k \in CacheKeys :
             /\ ~get_raises(cache, k, now, now)
             /\ ~set_raises(cache, k, now, Obj.max_size)
             /\ (k \notin KeysIn(LiveAt(cache, now))) =>
                   TTLCache_get(cache, k, now, now).result = None

\* C27 witness: set() on a cache of capacity zero, which is full while empty,
\* has completed and stored its entry
C27_Witness ==
    /\ cache_instance # None
    /\ Obj.max_size = 0
    /\ last.op = "set"
    /\ ~last.present
    /\ ~last.raised
    /\ last.key \in KeysOf(cache)

(***************************************************************************)
(* set() followed by get(), checked under SpecCache.                       *)
(***************************************************************************)
\* C28: after set(k, v), whatever the cache held and also when it was full, a
\* get(k) that reads the clock before the ttl has elapsed returns v.
C28_SetThenGet ==
    last.op = "set" =>
        \A t2 \in LaterReads :
            t2 < last.t2 + Obj.ttl_seconds =>
                TTLCache_get(cache, last.key, now, t2).result = Some(last.value)

\* C28 witness: set() of a new key on a full cache evicted another key, time
\* has passed since, and the new entry is still inside its lifetime
C28_Witness ==
    /\ last.op = "set"
    /\ ~last.present
    /\ last.evicted # None
    /\ Len(cache) = Obj.max_size
    /\ now > last.t2
    /\ now < last.t2 + Obj.ttl_seconds

\* the key _evict_oldest would remove from c
EvictionTarget(c) == KeysOf(c) \ KeysOf(_evict_oldest(c))

\* C29: set() of a key that is present gives its entry the expiry time of
\* this call, clock reading plus ttl, whenever the key was first inserted;
\* and the entry capacity eviction would remove is always one whose latest
\* set() is the earliest, so a key set again is passed over while an entry
\* set earlier remains.
C29_ResetRefreshesExpiry ==
    /\ (last.op = "set" /\ last.present) =>
          Lookup(cache, last.key).expiry_time = last.t2 + Obj.ttl_seconds
    /\ \A g \in EvictionTarget(cache), e \in EntriesOf(cache) :
          /\ last_set[g] # None
          /\ last_set[e.key] # None
          /\ last_set[g][1].T0 <= last_set[e.key][1].T0

\* C29 witness: the key inserted first has been set again at a later time, and
\* the eviction target is now the key inserted after it
C29_Witness ==
    /\ last.op = "set"
    /\ last.present
    /\ Len(cache) = 2
    /\ cache[1].key = last.key
    /\ cache[1].expiry_time > cache[2].expiry_time
    /\ EvictionTarget(cache) = {cache[2].key}

(***************************************************************************)
(* The analysis as a function of the event list.                           *)
(***************************************************************************)
\* the event list the upstream's feed parses to
FeedEvents == EventsOf(FeedJson(feed)).events

\* C30: the analysis leaves the list it is handed as it is: but for a set()
\* made on the cache directly, an entry of the cache changes only by being
\* written by the populate of a request, and then it holds, after the
\* analysis, the list get_user_events returned.  A request served from the
\* cache is handed the list of the entry and gets the response that the
\* request which stored the entry got: requests for one username served from
\* one entry receive identical reports.
C30_SameListSameReport ==
    [][ /\ \A e \in EntriesOf(cache') :
              \/ e \in EntriesOf(cache)
              \/ IsSet
              \/ /\ last_req'.step = "respond"
                 /\ last_req'.outcome[1].kind = "ok"
                 /\ e.key = _get_cache_key(last_req'.username)
                 /\ e.value = last_req'.outcome[1].events
        /\ (last_req'.step = "call" /\ last_req'.hit /\ last_req' # last_req) =>
              /\ last_req'.outcome =
                   Some(Returned(Lookup(cache, _get_cache_key(last_req'.username)).value))
              /\ fills[last_req'.username] # None
              /\ http' = fills[last_req'.username][1].response ]_vars

\* C30 witness: a request was served from the cache entry an earlier request
\* for the same username stored, with a report over two repositories, and
\* the entry still holds the list the upstream sent
C30_Witness ==
    /\ Reported
    /\ last_req.step = "call"
    /\ last_req.hit
    /\ Len(Report.repositories) >= 2
    /\ Lookup(cache, _get_cache_key(last_req.username)).value = FeedEvents

(***************************************************************************)
(* Lazy expiry, checked under SpecCtor.                                    *)
(***************************************************************************)
\* C31, as the claim states it: the dictionary changes only in a step that
\* is a get(), set() or clear() call, and right after a get() or a set() no
\* entry with an expiry time at or before the time of the call is left, of
\* whatever key; the time of the call is the clock as the call leaves it.
C31_LazyGlobalExpiry ==
    [][/\ cache' # cache => (last' # last /\ last'.op \in {"get", "set", "clear"})
       /\ (IsGet \/ IsSet) =>
             \A e \in EntriesOf(cache') : e.expiry_time > last'.t2]_vars

\* C31: the dictionary changes only in a step that is a get(), set() or
\* clear() call, made on the cache directly or, once requests are served,
\* by a request in its lookup or its populate, never by time passing alone.
\* A get() or a set() reads the clock twice, as t1 in its sweep and as t2
\* afterwards: right after it no entry with expiry_time <= t1 is left, of
\* whatever key, but for the entry the set() itself has just stored with a
\* ttl_seconds <= 0; and after get(key) no entry of key with expiry_time <= t2
\* is left.  So it is after the lookup of a request and after its populate,
\* whose sweeps read the clock as the step finds it.
C31_LazyExpiryAtTheSweep ==
    [][/\ cache' # cache =>
             \/ last' # last /\ last'.op \in {"get", "set", "clear"}
             \/ last_req'.step \in {"call", "respond"}
       /\ (IsGet \/ IsSet) =>
             \A e \in EntriesOf(cache') :
                \/ e.expiry_time > last'.t1
                \/ IsSet /\ e.key = last'.key /\ Obj.ttl_seconds <= 0
       /\ IsGet =>
             \A e \in EntriesOf(cache') :
                e.key = last'.key => e.expiry_time > last'.t2
       /\ (/\ last_req' # last_req
           /\ \/ last_req'.step = "call"
              \/ last_req'.step = "respond" /\ last_req'.outcome[1].kind = "ok") =>
             \A e \in EntriesOf(cache') :
                \/ e.expiry_time > now
                \/ /\ last_req'.step = "respond"
                   /\ e.key = _get_cache_key(last_req'.username)
                   /\ Obj.ttl_seconds <= 0]_vars

\* C31 witness: after a get() of one key the entry of another key, which
\* expired at the clock reading of that get() and which no set() had evicted
\* and no clear() had removed, is gone
C31_Witness ==
    /\ last.op = "get"
    /\ \E j \in CacheKeys :
         /\ j # last.key
         /\ last_set[j] # None
         /\ j \notin KeysOf(cache)
         /\ last_set[j][1].T0 + Obj.ttl_seconds = last.t1

\* C32: set() of a key that is absent after the sweep, on a cache that holds
\* max_size entries of which some are expired, evicts nothing for capacity:
\* the expired entries are removed and every unexpired entry is kept.
C32_SweepBeforeCapacity ==
    [][(/\ IsSet
        /\ ~last'.present
        /\ Len(cache) = Obj.max_size
        /\ \E e \in EntriesOf(cache) : e.expiry_time <= last'.t1) =>
          /\ last'.evicted = None
          /\ \A e \in EntriesOf(cache) :
                (e.expiry_time > last'.t1) <=> (e \in EntriesOf(cache'))]_vars

\* C32 witness: set() of a new key found the cache full, its sweep made room,
\* and an unexpired entry is still there next to the new one
C32_Witness ==
    /\ last.op = "set"
    /\ ~last.present
    /\ last.swept
    /\ last.evicted = None
    /\ Len(cache) >= 2
    /\ \E e \in EntriesOf(cache) : e.key # last.key /\ e.expiry_time > last.t1

\* C33: whatever get() calls were made, every entry of the cache has the
\* value of the latest set() of its key and that call's clock reading plus
\* the ttl as its expiry time; so a hit neither extends a lifetime nor
\* changes which entry capacity eviction takes, which is one set earliest.
C33_GetLeavesEntriesAlone ==
    /\ \A e \in EntriesOf(cache) :
          /\ last_set[e.key] # None
          /\ e.value = last_set[e.key][1].value
          /\ e.expiry_time = last_set[e.key][1].T0 + Obj.ttl_seconds
    /\ (last.op = "get" /\ last.result # None) =>
          /\ last.key \in KeysOf(cache)
          /\ last.result = Some(Lookup(cache, last.key).value)

\* C33 witness: a get() has just hit a key, at a later time than the key was
\* set, and that key is still the one capacity eviction would remove
C33_Witness ==
    /\ last.op = "get"
    /\ last.result # None
    /\ Len(cache) >= 2
    /\ last.t2 > last_set[last.key][1].T0
    /\ EvictionTarget(cache) = {last.key}

(***************************************************************************)
(* Age of what the cache serves, checked under Spec.                       *)
(***************************************************************************)
\* C34: a call served from the cache returns the list of an entry that the
\* latest successful fetch for the same username stored, not evicted since,
\* and the cache.set of that fetch read the clock less than ttl_seconds
\* before the lookup of the call read it.
C34_BoundedStaleness ==
    (last_req.step = "call" /\ last_req.hit) =>
        LET populate == fills[last_req.username]
            entry == Lookup(cache, _get_cache_key(last_req.username))
        IN  /\ populate # None
            /\ ~populate[1].evicted
            /\ populate[1].T0 <= last_req.lookup_time
            /\ last_req.lookup_time - populate[1].T0 < Obj.ttl_seconds
            /\ entry.expiry_time = populate[1].T0 + Obj.ttl_seconds
            /\ Out.events = entry.value

\* C34 witness: a call was served two events at the last clock reading
\* before the entry expires, at least one tick after the populate
C34_Witness ==
    /\ last_req.step = "call"
    /\ last_req.hit
    /\ Len(Out.events) = 2
    /\ Obj.ttl_seconds >= 2
    /\ last_req.lookup_time = fills[last_req.username][1].T0 + Obj.ttl_seconds - 1

(***************************************************************************)
(* The last writer of an entry, checked under SpecRace.                    *)
(***************************************************************************)
\* C35: when a call ends with the upstream's events, the entry of its
\* username holds those events and the expiry time counted from the
\* cache.set of this call, whatever an overlapping call for the same
\* username stored before, also when that other call started later.
C35_LastWriterWins ==
    (last_req.step = "respond" /\ Out.kind = "ok") =>
        LET entry == Lookup(cache, _get_cache_key(last_req.username))
            populate == fills[last_req.username]
        IN  /\ _get_cache_key(last_req.username) \in KeysOf(cache)
            /\ entry.value = Out.events
            /\ populate # None
            /\ entry.expiry_time = populate[1].T0 + Obj.ttl_seconds
            /\ populate[1].T0 <= now
            /\ entry.expiry_time <= now + Obj.ttl_seconds

\* C35 witness: a call that started first ended last with no events, after a
\* call for the same username that started later had populated the cache;
\* the entry holds the empty list and expires a full ttl from now
C35_Witness ==
    /\ last_req.step = "respond"
    /\ Out.kind = "ok"
    /\ Out.events = <<>>
    /\ overtaken.ended
    /\ Lookup(cache, _get_cache_key(last_req.username)) =
          [key |-> _get_cache_key(last_req.username), value |-> <<>>,
           expiry_time |-> now + Obj.ttl_seconds]

(***************************************************************************)
(* The analysis of every feed, asked for by one user and served from the   *)
(* upstream and from the cache; grouping as a partition of the event list. *)
(***************************************************************************)
NextGrouping ==
    \/ GetCache
    \/ Request(1, "alice")
    \/ Serve

SpecGrouping == InitService /\ [][NextGrouping]_vars

RECURSIVE SumOf(_)
SumOf(numbers) == IF numbers = <<>> THEN 0 ELSE Head(numbers) + SumOf(Tail(numbers))

\* the counts listed in top_activity_types of one repository, added up
ListedIn(repository) ==
    SumOf([j \in 1..Len(repository.top_activity_types) |->
              repository.top_activity_types[j].count])

\* the counts listed over all repositories of the report
ListedTotal == SumOf([i \in 1..Len(Repositories) |-> ListedIn(Repositories[i])])

\* C36: grouping partitions the event list: every event is in exactly one
\* group, the group of its repository, no two groups have one name, the group
\* sizes add up to total_events, and the counts listed in top_activity_types
\* over all repositories add up to at most total_events, to exactly
\* total_events if and only if no repository has more than 3 distinct types.
C36_GroupingPartitions ==
    Reported =>
        \A events \in {FeedEvents} :
        \A repo_groups \in {_group_events_by_repository(events)} :
            LET places(event) == {<<g, j>> \in (1..Len(repo_groups)) \X (1..Len(events)) :
                                     /\ j <= Len(repo_groups[g].events)
                                     /\ repo_groups[g].events[j] = event}
            IN  /\ \A k \in 1..Len(events) :
                      \A found \in {places(events[k])} :
                          /\ Cardinality(found) = 1
                          /\ \A place \in found :
                                repo_groups[place[1]].name = full_name(events[k].repo)
                /\ \A g, h \in 1..Len(repo_groups) :
                      repo_groups[g].name = repo_groups[h].name => g = h
                /\ \A g \in 1..Len(repo_groups) : repo_groups[g].events # <<>>
                /\ SumOf([g \in 1..Len(repo_groups) |-> Len(repo_groups[g].events)])
                      = Report.total_events
                /\ Len(Repositories) = Len(repo_groups)
                /\ \A g \in 1..Len(repo_groups) :
                      Repositories[g].repository_name = repo_groups[g].name
                /\ \A listed \in {ListedTotal} :
                      /\ listed <= Report.total_events
                      /\ listed = Report.total_events
                            <=> \A i \in 1..Len(Repositories) :
                                  Cardinality(TypesIn(Repositories[i].repository_name)) <= 3

\* C36 witness: a report of four events whose listed counts add up to three,
\* the fourth type of the repository being left out
C36_Witness ==
    /\ Reported
    /\ Report.total_events = 4
    /\ ListedTotal = 3

(***************************************************************************)
(* Termination of get_user_events.  Overlapping calls, at most one in      *)
(* flight per username, so that a username names one call from its start  *)
(* to its end whatever slot it occupies.  client.get is given the          *)
(* configured timeout, which httpx applies to each wait for the upstream,  *)
(* to connect and to read a part of the answer, and not to the request as  *)
(* a whole: when nothing has come for that long the await ends with an     *)
(* httpx.TimeoutException, an httpx.RequestError; every part of the answer *)
(* that comes lets the wait start again.  The timer of httpx runs on by    *)
(* itself; what the upstream does is up to the upstream.                   *)
(***************************************************************************)
\* the timeout, in ticks of httpx's timer
TimeoutTicks == 2

timed_out_never(silence) == FALSE

\* `timeout=self.timeout`: the wait has lasted as long as the timeout allows
timed_out(silence) == silence >= TimeoutTicks

\* the service with a cache of one entry that lives one tick
InitLive ==
    /\ Start(<<>>)
    /\ env = [cache_ttl_seconds |-> 1, cache_max_size |-> 1]

LiveRequest(r, username) ==
    /\ Awaiting(username) = {}
    /\ Request(r, username)

\* the upstream completes its answer, or the connection fails
AwaitEnds(username) ==
    \E r \in Awaiting(username), i \in 1..Len(AnswerKinds) : Respond(r, AnswerKinds[i])

\* a tick of the timer passes and nothing has come from the upstream
Wait(username) ==
    /\ \E r \in Awaiting(username) :
         /\ req[r].silence < TimeoutTicks
         /\ req' = [req EXCEPT ![r].silence = @ + 1]
    /\ UNCHANGED <<now, env, settings, settings_error, cache_instance, cache, last, last_set,
                   last_req, fills, feed, app_state, workers, instances, http, overtaken>>

\* a part of the answer comes, not the last: the wait starts again
Drip(username) ==
    /\ \E r \in Awaiting(username) :
         /\ req[r].silence > 0
         /\ req' = [req EXCEPT ![r].silence = 0]
    /\ UNCHANGED <<now, env, settings, settings_error, cache_instance, cache, last, last_set,
                   last_req, fills, feed, app_state, workers, instances, http, overtaken>>

\* the wait has lasted the timeout: client.get raises httpx.ReadTimeout
TimesOut(username) ==
    \E r \in Awaiting(username) :
        /\ timed_out(req[r].silence)
        /\ Respond(r, RequestError(""))

NextLive ==
    \/ GetCache
    \/ \E r \in Reqs, username \in ConcurrentUsers : LiveRequest(r, username)
    \/ \E username \in ConcurrentUsers : AwaitEnds(username)
    \/ \E username \in ConcurrentUsers : Wait(username)
    \/ \E username \in ConcurrentUsers : Drip(username)
    \/ \E username \in ConcurrentUsers : TimesOut(username)
    \/ \E r \in Reqs : Cancel(r)
    \/ Tick

\* httpx's timer: it runs on while a call waits, and it ends the wait when
\* the timeout is reached
Timer ==
    \A username \in ConcurrentUsers :
        WF_vars(Wait(username)) /\ WF_vars(TimesOut(username))

SpecLive == InitLive /\ [][NextLive]_vars /\ Timer

\* the call for `username` has ended: with an event list or with an exception
Completed(username) ==
    /\ Awaiting(username) = {}
    /\ last_req.username = username
    /\ last_req.step \in {"respond", "cancel"}
    /\ last_req.outcome # None
    /\ \/ last_req.outcome[1].kind = "ok"
       \/ /\ last_req.outcome[1].kind # "ok"
          /\ last_req.outcome[1].events = <<>>

\* C37, as the claim states it: the configured timeout ensures that the
\* upstream call returns or fails, so every get_user_events call that awaits
\* the upstream eventually ends, with an event list or with a failure.
C37_CallsComplete ==
    \A username \in ConcurrentUsers : (Awaiting(username) # {}) ~> Completed(username)

\* the upstream has just sent a part of its answer to the call for
\* `username`, or the call has just begun to wait
Fed(username) == \E r \in Awaiting(username) : req[r].silence = 0

\* C37: every get_user_events call that awaits the upstream eventually ends,
\* with an event list or with a failure, unless the upstream goes on for ever
\* sending parts of its answer, each within the timeout of the one before; a
\* call served from the cache ends in the step that started it, and so does
\* the populate after the answer.
C37_CallsCompleteUnlessFed ==
    \A username \in ConcurrentUsers :
        \/ []<>Fed(username)
        \/ (Awaiting(username) # {}) ~> Completed(username)

\* C37 witness: the call that started second has ended with ReadTimeout, the
\* upstream having sent nothing for as long as the timeout, while the call
\* that started first still awaits its answer
C37_Witness ==
    /\ last_req.step = "respond"
    /\ last_req.username = "Alice"
    /\ last_req.outcome = Some(GitHubAPIError("Request error: ", None))
    /\ Awaiting("alice") = {1}
    /\ Awaiting("Alice") = {}

(***************************************************************************)
(* The application's lifespan (main.py) and the dependency that hands the  *)
(* shared HTTP client to a request (dependencies.get_github_repository).   *)
(* app_state.http_client is None while app.state has no such attribute,    *)
(* else the number of the client that startup put there; clients are       *)
(* numbered as they are created and are closed in that order.              *)
(***************************************************************************)
MaxStarts == 2

\* the process before `app = create_app()`, under any configuration
InitLifespan == Start(<<>>)

\* create_app(): setup_logging() and create_app itself call get_settings();
\* Settings() raising leaves no application behind
CreateApp ==
    /\ app_state.lifespan = "none"
    /\ settings' = get_settings(settings, env)
    /\ IF settings' = None
       THEN /\ settings_error' = TRUE
            /\ UNCHANGED app_state
       ELSE /\ app_state' = [app_state EXCEPT !.lifespan = "stopped"]
            /\ UNCHANGED settings_error
    /\ UNCHANGED <<now, env, cache_instance, cache, last, last_set, req, last_req, fills,
                   feed, workers, instances, http, overtaken>>

\* lifespan up to its yield: the settings are read, a client is created and
\* stored in app.state
Startup ==
    /\ app_state.lifespan = "stopped"
    /\ app_state.created < MaxStarts
    /\ settings' = get_settings(settings, env)
    /\ settings' # None
    /\ app_state' = [lifespan |-> "running",
                     created |-> app_state.created + 1,
                     closed |-> app_state.closed,
                     http_client |-> Some(app_state.created + 1)]
    /\ UNCHANGED <<now, env, settings_error, cache_instance, cache, last, last_set, req,
                   last_req, fills, feed, workers, instances, http, overtaken>>

\* lifespan after its yield, run when the server has no request left:
\* client.aclose(); the attribute of app.state stays
Shutdown ==
    /\ app_state.lifespan = "running"
    /\ \A r \in Reqs : req[r].pc = "idle"
    /\ app_state' = [app_state EXCEPT !.lifespan = "stopped", !.closed = @ + 1]
    /\ UNCHANGED <<now, env, settings, settings_error, cache_instance, cache, last, last_set,
                   req, last_req, fills, feed, workers, instances, http, overtaken>>

\* get_github_repository without the attribute: RuntimeError before the
\* handler, get_settings() and get_cache() are reached
NotInitialized(username) ==
    /\ app_state.lifespan # "none"
    /\ ~hasattr_http_client(app_state)
    /\ \A r \in Reqs : req[r].pc = "idle"
    /\ last_req' = [NoReq EXCEPT !.step = "resolve", !.username = username,
                                 !.outcome = Some(Raised("RuntimeError"))]
    /\ http' = None
    /\ UNCHANGED <<now, env, settings, settings_error, cache_instance, cache, last, last_set,
                   req, fills, feed, app_state, workers, instances, overtaken>>

\* a request handed an open client
OpenRequest(username) ==
    /\ app_state.lifespan # "none"
    /\ hasattr_http_client(app_state)
    /\ ~is_closed(app_state)
    /\ Request(1, username)

\* a request handed a closed client: the lookup is made; on a miss client.get
\* raises without sending, InvalidURL for a URL it cannot build and else
\* RuntimeError, neither of them an httpx.RequestError
ClosedRequest(username) ==
    /\ app_state.lifespan # "none"
    /\ hasattr_http_client(app_state)
    /\ is_closed(app_state)
    /\ Request(1, username)

\* requests one at a time, before startup, while the application runs and
\* after shutdown
NextLifespan ==
    \/ CreateApp
    \/ Startup
    \/ Shutdown
    \/ GetCache
    \/ \E username \in ConcurrentUsers : NotInitialized(username)
    \/ \E username \in Callers : OpenRequest(username)
    \/ \E username \in Callers : ClosedRequest(username)
    \/ \E i \in 1..Len(AnswerKinds) : Respond(1, AnswerKinds[i])
    \/ Tick

SpecLifespan == InitLifespan /\ [][NextLifespan]_vars

\* C38: no request reaches an application that create_app() has not built;
\* every startup creates one client and every shutdown closes the one
\* client that is open, so at most one client is open at a time and
\* app.state holds the client created last; as long as no client has been
\* created every request has failed with RuntimeError in its dependencies,
\* without an upstream call and without touching the cache; an upstream
\* call is in flight only through a client that was created and is open.
C38_ClientLifecycle ==
    /\ app_state.closed <= app_state.created
    /\ app_state.created <= app_state.closed + 1
    /\ (app_state.lifespan = "running") <=> (app_state.created = app_state.closed + 1)
    /\ app_state.http_client =
          (IF app_state.created = 0 THEN None ELSE Some(app_state.created))
    /\ app_state.lifespan = "none" =>
          /\ app_state.created = 0
          /\ last_req = NoReq
    /\ settings_error => app_state.lifespan = "none"
    /\ app_state.created = 0 =>
          /\ \A r \in Reqs : req[r].pc = "idle"
          /\ last_req.step \in {"none", "resolve"}
          /\ last_req.calls = 0
          /\ cache = <<>>
          /\ http = None
    /\ last_req.step = "resolve" =>
          /\ last_req.outcome = Some(Raised("RuntimeError"))
          /\ last_req.calls = 0
    /\ \A r \in Reqs :
          req[r].pc = "awaiting" =>
              /\ app_state.http_client # None
              /\ app_state.http_client[1] \in 1..app_state.created
              /\ app_state.http_client[1] > app_state.closed
    /\ (last_req.step = "call" /\ last_req.calls > 0) => app_state.created > 0

\* C38 witness: the last request failed with RuntimeError before the first
\* startup; since then the application has started and shut down once
C38_Witness ==
    /\ last_req.step = "resolve"
    /\ last_req.outcome = Some(Raised("RuntimeError"))
    /\ app_state.created = 1
    /\ app_state.closed = 1
    /\ app_state.lifespan = "stopped"

====
